---- MODULE Spec2Model ----
(***************************************************************************)
(* Model of the media acquisition engine of video-downloader:              *)
(*   - quality negotiation      (LoaderBase._get_target_quality)           *)
(*   - manifest segment expansion (VkLoader._get_resource_from_mpd,        *)
(*                                 VkLoader._get_urls_by_numbers)          *)
(*   - segmented download       (LoaderBase._download_resource_by_spec)    *)
(*   - acquisition of one video (LoaderBase._get_video / _try_execute)     *)
(*   - redirect to the source's loader (LoaderBase._check_redirect)        *)
(*   - the two transfers and the merge (LoaderBase._execute)               *)
(*   - selection of representations (VkLoader._get_media_from_mpd)         *)
(*   - observation of the network log (_get_urls_from_network_logs)        *)
(*   - speed limited iteration  (LimitedResponse.iter_content)             *)
(*   - media from grouped URLs  (VkLoader._get_media_from_types_map)       *)
(*   - playlist mode            (LoaderBase._get_playlist)                 *)
(*   - last existing path part  (LoaderBase._find_last_existing_path_part) *)
(* Each component has its own specification over the shared variables;     *)
(* the variables of the other components stay idle.                        *)
(***************************************************************************)
EXTENDS Integers, Sequences, FiniteSets, TLC

VARIABLES
    \* ---- quality negotiation
    qualities,   \* set of discovered qualities (get_qualities())
    quality,     \* requested quality: [kind |-> "min" | "max" | "num", value |-> n]
    exact,       \* the --exact flag
    target,      \* outcome of _get_target_quality: [status, value]
    \* ---- manifest segment expansion
    startNumber, \* SegmentTemplate@startNumber
    timeline,    \* SegmentTimeline: sequence of S entries, each its r attribute or NoAttr
    mediaPattern, \* SegmentTemplate@media, as the text before and after its placeholder
    msource,     \* the source sequence of the ResourceSpec built, or Unbuilt
    \* ---- segmented download (one run of _download_resource_by_spec)
    dsource,     \* spec.source: [kind |-> "list" | "range", exps, size]
    dfile0,      \* content of spec.target before the run
    dfile,       \* content of spec.target
    dpc,         \* "start" | "loop" | "write" | "done" | "failed"
    dnext,       \* number of entries taken from spec.source so far
    dreqs,       \* the requests issued, each with its response, in time order
    dread,       \* bytes_read: bytes of the current response written so far
    dcount,      \* bytes_count
    \* ---- acquisition of one video (_get_video)
    apc,         \* the step _get_video is at, "end" once it has returned or raised
    alog,        \* the steps taken so far, each with its outcome
    areport,     \* "none" | "logged" (caught and logged) | "unhandled" (propagated)
    atransfers,  \* calls of _download_resource_by_spec started
    amux,        \* calls of write_videofile
    apolls,      \* observations of the network log made by get_media's wait
    \* ---- redirect to the loader of the video source (_check_redirect)
    rpage,       \* driver.url, the page the loader is on
    rsource,     \* get_source_url(): the canonical source URL, empty when absent
    rkwargs,     \* self._kwargs: the parameters the loader was created with
    rloaders,    \* the loaders _redirect has constructed, in order
    rgets,       \* the get(url) calls _redirect has made, in order
    rpc,         \* "check" | "redirect" | "forwarded" | "done" | "raised"
    rexc,        \* the exception _check_redirect raised, NoException if none
    \* ---- the two transfers of _execute
    xmedia,      \* the MediaSpec get_media returned: [audio, video] sources
    xpc,         \* "audio" | "video" | "mux" | "end"
    xdone,       \* the transfers that have returned or raised, in time order
    xmux,        \* calls of write_videofile
    \* ---- selection of the manifest's representations (_get_media_from_mpd)
    videoReps,   \* Representation elements of the video AdaptationSet, in document order
    audioReps,   \* Representation elements of the audio AdaptationSet, in document order
    targetQuality, \* self.target_quality
    selected,    \* outcome per media type: the representation or the exception
    mediaSpec,   \* "none" | "built": the MediaSpec _get_media_from_mpd returns
    \* ---- observation of the resource timing log (_get_urls_from_network_logs)
    nlog,        \* window.performance.getEntriesByType('resource'), oldest first
    nobs,        \* the observations made: entries seen, result, replay() calls
    \* ---- speed limited iteration (LimitedResponse.iter_content)
    speed,       \* r: the speed limit in bytes per second
    segments,    \* k: options.segments_count
    threshold,   \* s: options.sleep_threshold, in ticks
    chunkSize,   \* chunk_size argument: 0 for None
    remaining,   \* bytes of the response not yet read
    clock,       \* time.perf_counter(), in ticks
    tl,          \* cumulative time lag, in ticks
    tl_start,    \* start of the interval the next lag update measures
    yielded,     \* bytes of the chunks yielded so far
    tpc,         \* "read" | "consume" | "sleep" | "done"
    tlog,        \* the last two lag updates: time, lag, time slept after it
    \* ---- media from the grouped byte-range URLs (_get_media_from_types_map)
    typesMap,    \* types_map: the groups in insertion order, each the list of its URLs
    gtarget,     \* self.target_quality
    gi,          \* position of the outer loop in types_map
    gj,          \* position of the inner loop in the group
    gpc,         \* "loop" | "after" | "done"
    medias,      \* medias: per group, the ResourceSpec recorded for each media type
    gmedia,      \* the group whose dict media refers to, 0 for None
    gprobed,     \* the URLs downloaded and written, in time order
    gresult,     \* the MediaSpec returned or the exception raised
    \* ---- target files of the manifest's resources (_get_resource_from_mpd)
    videoMimes,  \* mimeType attribute of each Representation of the video AdaptationSet
    audioMimes,  \* mimeType attribute of each Representation of the audio AdaptationSet
    mtargets,    \* target of the ResourceSpec built for each media type, NoTarget before
    \* ---- playlist mode (_get_playlist)
    playlist,    \* number of video URLs get_playlist_contents() returned, 0 for none
    pnext,       \* video_num: position of the for loop in the playlist
    poutput,     \* self.output_path
    psaved,      \* output_path: the local copy taken before the loop
    pattempts,   \* the calls of _get_video made: the video, self.output_path before and after, the outcome
    ppc,         \* "start" | "loop" | "done" | "raised"
    \* ---- the last existing part of a path (_find_last_existing_path_part)
    fparents,    \* len(path.parents)
    fexists,     \* number of the deepest part that exists, len(parents) + 1 when none does
    fisfile,     \* whether the deepest existing part is a file
    flow,        \* low
    fhigh,       \* high
    flepp,       \* the part returned, NoPart for None
    fraised,     \* the exception _ensure_no_file_exists raised, "none" if none
    fpc          \* "enter" | "search" | "found" | "done"

qvars == <<qualities, quality, exact, target>>
mvars == <<startNumber, timeline, mediaPattern, msource>>
dvars == <<dsource, dfile0, dfile, dpc, dnext, dreqs, dread, dcount>>
avars == <<apc, alog, areport, atransfers, amux, apolls>>
rvars == <<rpage, rsource, rkwargs, rloaders, rgets, rpc, rexc>>
xvars == <<xmedia, xpc, xdone, xmux>>
svars == <<videoReps, audioReps, targetQuality, selected, mediaSpec>>
nvars == <<nlog, nobs>>
tvars == <<speed, segments, threshold, chunkSize, remaining, clock, tl, tl_start,
           yielded, tpc, tlog>>
gvars == <<typesMap, gtarget, gi, gj, gpc, medias, gmedia, gprobed, gresult>>
kvars == <<videoMimes, audioMimes, mtargets>>
pvars == <<playlist, pnext, poutput, psaved, pattempts, ppc>>
fvars == <<fparents, fexists, fisfile, flow, fhigh, flepp, fraised, fpc>>
vars == <<qualities, quality, exact, target, startNumber, timeline, mediaPattern, msource,
          dsource, dfile0, dfile, dpc, dnext, dreqs, dread, dcount,
          apc, alog, areport, atransfers, amux, apolls,
          rpage, rsource, rkwargs, rloaders, rgets, rpc, rexc,
          xmedia, xpc, xdone, xmux,
          videoReps, audioReps, targetQuality, selected, mediaSpec,
          nlog, nobs,
          speed, segments, threshold, chunkSize, remaining, clock, tl, tl_start,
          yielded, tpc, tlog,
          typesMap, gtarget, gi, gj, gpc, medias, gmedia, gprobed, gresult,
          videoMimes, audioMimes, mtargets,
          playlist, pnext, poutput, psaved, pattempts, ppc,
          fparents, fexists, fisfile, flow, fhigh, flepp, fraised, fpc>>

(***************************************************************************)
(* Common helpers                                                          *)
(***************************************************************************)
None == "None"

Min(a, b) == IF a <= b THEN a ELSE b

Max(a, b) == IF a >= b THEN a ELSE b

SetMin(S) == CHOOSE x \in S : \A y \in S : x <= y

SetMax(S) == CHOOSE x \in S : \A y \in S : x >= y

\* sorted(): the ascending list of a set of integers
RECURSIVE Sorted(_)
Sorted(S) == IF S = {} THEN <<>> ELSE <<SetMin(S)>> \o Sorted(S \ {SetMin(S)})

\* Python list indexing, 0-based, a negative index counting from the end
PyIndex(seq, i) == IF i >= 0 THEN seq[i + 1] ELSE seq[Len(seq) + i + 1]

(***************************************************************************)
(* Quality negotiation: LoaderBase._get_target_quality                     *)
(***************************************************************************)
NumQualities == 5

\* the quality values of MPD_QUALITIES, in ascending order
QualityOf(i) ==
    CASE i = 1 -> 144
      [] i = 2 -> 240
      [] i = 3 -> 360
      [] i = 4 -> 480
      [] i = 5 -> 720
      [] OTHER -> 1080 + 360 * (i - 6)

QualityValues == {QualityOf(i) : i \in 1..NumQualities}

\* MINIMUM_QUALITY: the least value --quality accepts
MinimumQuality == 144

\* numeric requests: every quality value and a value between each two
NumericRequests ==
    {r \in QualityValues \cup {q + 20 : q \in QualityValues} : r >= MinimumQuality}

Requests ==
    {[kind |-> "min", value |-> 0], [kind |-> "max", value |-> 0]}
        \cup {[kind |-> "num", value |-> r] : r \in NumericRequests}

\* a comparison slip: the first element greater than or equal to q
GtIndexInclusive(qs, q) ==
    IF \E i \in 1..Len(qs) : qs[i] >= q
    THEN (CHOOSE i \in 1..Len(qs) : qs[i] >= q /\ \A j \in 1..(i - 1) : ~(qs[j] >= q)) - 1
    ELSE Len(qs)

\* index (0-based) of the first element greater than q, len(qs) if there is none
GtIndex(qs, q) ==
    IF \E i \in 1..Len(qs) : qs[i] > q
    THEN (CHOOSE i \in 1..Len(qs) : qs[i] > q /\ \A j \in 1..(i - 1) : ~(qs[j] > q)) - 1
    ELSE Len(qs)

Found(v) == [status |-> "ok", value |-> v]

QualityNotFound == [status |-> "QualityNotFoundError", value |-> 0]

Pending == [status |-> "pending", value |-> 0]

\* the exact flag forgotten: a lower quality is returned whatever the flag
GetTargetQualityNoExact(qset, req, ex) ==
    LET qs == Sorted(qset) IN
    IF req.kind = "min" THEN Found(PyIndex(qs, 0))
    ELSE IF req.kind = "max" THEN Found(PyIndex(qs, -1))
    ELSE Found(PyIndex(qs, GtIndex(qs, req.value) - 1))

GetTargetQuality(qset, req, ex) ==
    LET qs == Sorted(qset) IN
    IF req.kind = "min" THEN Found(PyIndex(qs, 0))
    ELSE IF req.kind = "max" THEN Found(PyIndex(qs, -1))
    ELSE LET tq == PyIndex(qs, GtIndex(qs, req.value) - 1) IN
         IF tq < req.value /\ ex THEN QualityNotFound ELSE Found(tq)

InitQ ==
    /\ qualities \in (SUBSET QualityValues) \ {{}}
    /\ quality \in Requests
    /\ exact \in BOOLEAN
    /\ target = Pending

IdleQ ==
    /\ qualities = {QualityOf(1)}
    /\ quality = [kind |-> "max", value |-> 0]
    /\ exact = FALSE
    /\ target = Pending

ResolveQuality ==
    /\ target = Pending
    /\ target' = GetTargetQuality(qualities, quality, exact)
    /\ UNCHANGED <<qualities, quality, exact>>
    /\ UNCHANGED <<mvars, dvars, avars, rvars, xvars, svars, nvars, tvars, gvars, kvars, pvars, fvars>>

Resolved == target # Pending

AtOrBelow(qset, r) == {q \in qset : q <= r}

\* C1: for a numeric request the resolver never returns a quality greater than
\* the request; when every discovered quality exceeds the request it fails
\* instead of returning a value, whatever the exact flag.
C1_NeverAboveRequest ==
    (Resolved /\ quality.kind = "num") =>
        /\ target.status = "ok" => target.value <= quality.value
        /\ AtOrBelow(qualities, quality.value) = {} => target.status # "ok"

\* C2: 'min' gives the minimum of the discovered set, 'max' its maximum; a
\* numeric request without the exact flag, with some discovered quality at or
\* below it, gives the greatest discovered quality at or below the request.
C2_SelectsMinMaxOrGreatestBelow ==
    Resolved =>
        /\ quality.kind = "min" => target = Found(SetMin(qualities))
        /\ quality.kind = "max" => target = Found(SetMax(qualities))
        /\ (quality.kind = "num" /\ ~exact /\ AtOrBelow(qualities, quality.value) # {})
              => target = Found(SetMax(AtOrBelow(qualities, quality.value)))

C2_Witness ==
    /\ qualities = {144, 240, 480, 720}
    /\ quality = [kind |-> "num", value |-> 500]
    /\ ~exact
    /\ target = Found(480)

\* C3: under the exact flag a numeric request that is a discovered quality is
\* returned as is; when the greatest discovered quality at or below the request
\* is strictly below it, QualityNotFound is raised; no quality below the
\* request is ever returned under the exact flag.
C3_ExactNeverDowngrades ==
    (Resolved /\ exact /\ quality.kind = "num") =>
        /\ quality.value \in qualities => target = Found(quality.value)
        /\ (/\ AtOrBelow(qualities, quality.value) # {}
            /\ SetMax(AtOrBelow(qualities, quality.value)) < quality.value)
              => target = QualityNotFound
        /\ target.status = "ok" => target.value >= quality.value

C3_Witness ==
    /\ qualities = {144, 240, 480, 720}
    /\ quality = [kind |-> "num", value |-> 500]
    /\ exact
    /\ target = QualityNotFound

(***************************************************************************)
(* Manifest segment expansion: VkLoader._get_resource_from_mpd and         *)
(* VkLoader._get_urls_by_numbers.  Strings are sequences of characters.    *)
(***************************************************************************)
MaxStartNumber == 2

MaxTimeline == 2

MaxRepeat == 2

NoAttr == -1

\* no source built yet (a built source always starts with the init entry)
Unbuilt == <<>>

\* str(n) for a natural number: its decimal digits
Digit(d) ==
    CASE d = 0 -> "0" [] d = 1 -> "1" [] d = 2 -> "2" [] d = 3 -> "3" [] d = 4 -> "4"
      [] d = 5 -> "5" [] d = 6 -> "6" [] d = 7 -> "7" [] d = 8 -> "8" [] OTHER -> "9"

RECURSIVE Str(_)
Str(n) == IF n < 10 THEN <<Digit(n)>> ELSE Str(n \div 10) \o <<Digit(n % 10)>>

\* str.rfind(ch): the greatest 0-based index holding ch, -1 if there is none
RFind(str, ch) ==
    IF \E i \in 1..Len(str) : str[i] = ch
    THEN (CHOOSE i \in 1..Len(str) : str[i] = ch /\ \A j \in (i + 1)..Len(str) : str[j] # ch) - 1
    ELSE -1

\* the slice str[a:b] for 0 <= a, b <= len(str)
Slice(str, a, b) == IF b <= a THEN <<>> ELSE SubSeq(str, a + 1, b)

\* range(a, b) as a list
Range(a, b) == IF b <= a THEN <<>> ELSE [k \in 1..(b - a) |-> a + k - 1]

BaseUrl == <<"h", "/">>

InitUrl == <<"i", "n", "i", "t">>

Placeholder == <<"$", "N", "$">>

MediaPatterns ==
    {[pre |-> <<"s", "-">>, post |-> <<".", "m">>], [pre |-> <<>>, post |-> <<>>]}

MediaUrl(pat) == pat.pre \o Placeholder \o pat.post

Timelines ==
    UNION {[1..n -> {NoAttr} \cup 0..MaxRepeat] : n \in 1..MaxTimeline}

Entry(url, exp) == [url |-> url, exp |-> exp]

\* the generator _get_urls_by_numbers, as the list of what it yields
GetUrlsByNumbers(base, init, media, nums) ==
    LET j == RFind(media, "$")
        i == RFind(Slice(media, 0, j), "$")
    IN <<Entry(base \o init, None)>>
         \o [k \in 1..Len(nums) |->
               Entry(base \o Slice(media, 0, i) \o Str(nums[k])
                          \o Slice(media, j + 1, Len(media)), None)]

\* count: one per S element, plus its r attribute when present
RECURSIVE SegmentCount(_)
SegmentCount(tline) ==
    IF tline = <<>> THEN 0
    ELSE 1 + (IF tline[1] # NoAttr THEN tline[1] ELSE 0) + SegmentCount(Tail(tline))

\* the numbers handed to _get_urls_by_numbers
SegmentNumbers(start, tline) == Range(start, SegmentCount(tline) + 1)

GetResourceSource(start, tline, pat) ==
    GetUrlsByNumbers(BaseUrl, InitUrl, MediaUrl(pat), SegmentNumbers(start, tline))

InitM ==
    /\ startNumber \in 0..MaxStartNumber
    /\ timeline \in Timelines
    /\ mediaPattern \in MediaPatterns
    /\ msource = Unbuilt

IdleM ==
    /\ startNumber = 1
    /\ timeline = <<>>
    /\ mediaPattern = [pre |-> <<>>, post |-> <<>>]
    /\ msource = Unbuilt

BuildResource ==
    /\ msource = Unbuilt
    /\ msource' = GetResourceSource(startNumber, timeline, mediaPattern)
    /\ UNCHANGED <<startNumber, timeline, mediaPattern>>
    /\ UNCHANGED <<qvars, dvars, avars, rvars, xvars, svars, nvars, tvars, gvars, kvars, pvars, fvars>>

\* total number of segments the timeline denotes
TotalCount(tline) == SegmentCount(tline)

ExpandedUrl(pat, n) == BaseUrl \o pat.pre \o Str(n) \o pat.post

\* C4: the source sequence is the init URL followed by exactly one media URL
\* per segment index from startNumber through startNumber + totalCount - 1, in
\* increasing order, each with unknown expected size: 1 + totalCount entries.
C4_OneUrlPerSegmentIndex ==
    msource # Unbuilt =>
        /\ Len(msource) = 1 + TotalCount(timeline)
        /\ msource[1] = Entry(BaseUrl \o InitUrl, None)
        /\ \A k \in 1..TotalCount(timeline) :
              msource[k + 1] = Entry(ExpandedUrl(mediaPattern, startNumber + k - 1), None)

(***************************************************************************)
(* Segmented download: LoaderBase._download_resource_by_spec,              *)
(* _raise_for_status, _get_content_length, _append_file and the byte-range *)
(* source VkLoader._get_urls_by_bytes.  A byte of the target file is the   *)
(* pair <<request, position>> of the response body it comes from; bytes    *)
(* present before the run are <<0, position>>.                             *)
(***************************************************************************)
MaxSource == 3

\* the size of one byte range (bytes_num), in bytes of the model
RangeBytes == 2

\* the most bytes one file.write appends (chunk_size of iter_content)
ChunkBytes == 1

MaxOldBytes == 1

\* the largest resource a byte-range source is run against: three ranges
MaxResource == 2 * RangeBytes + 1

\* requests a run may issue in the model; more than any finite resource needs
MaxRequests == MaxSource + 2

StatusCodes == {199, 200, 300, 404}

NoExp == [some |-> FALSE, n |-> 0]

Exp(n) == [some |-> TRUE, n |-> n]

NoLength == [known |-> FALSE, n |-> 0]

Length(n) == [known |-> TRUE, n |-> n]

Body(k, b) == [j \in 1..b |-> <<k, j>>]

ListSource(exps) == [kind |-> "list", exps |-> exps, size |-> 0]

RangeSource(size) == [kind |-> "range", exps |-> <<>>, size |-> size]

Sources ==
    {ListSource([i \in 1..n |-> e]) : n \in 0..MaxSource, e \in {NoExp, Exp(RangeBytes)}}
        \cup {RangeSource(size) : size \in 0..MaxResource}

\* bytes_start when the generator _get_urls_by_bytes yields for the k-th time:
\* 0, then `bytes_start += bytes_num` after every yield
RECURSIVE BytesStart(_)
BytesStart(k) == IF k <= 1 THEN 0 ELSE BytesStart(k - 1) + RangeBytes

\* the end of a range taken for the start of the next one
GetUrlsByBytesOverlapping(k) ==
    LET bytes_start == BytesStart(k)
        bytes_end == bytes_start + RangeBytes
    IN [url |-> [seg |-> 0, start |-> bytes_start, end |-> bytes_end],
        exp |-> Exp(RangeBytes)]

\* the k-th entry (k = 1, 2, ...) the generator _get_urls_by_bytes yields
GetUrlsByBytes(k) ==
    LET bytes_start == BytesStart(k)
        bytes_end == bytes_start + RangeBytes - 1
    IN [url |-> [seg |-> 0, start |-> bytes_start, end |-> bytes_end],
        exp |-> Exp(RangeBytes)]

HasNext(src, taken) ==
    IF src.kind = "list" THEN taken < Len(src.exps) ELSE TRUE

\* the entry the for loop takes after `taken` entries
NextEntry(src, taken) ==
    IF src.kind = "list"
    THEN [url |-> [seg |-> taken + 1, start |-> 0, end |-> -1], exp |-> src.exps[taken + 1]]
    ELSE GetUrlsByBytes(taken + 1)

\* response headers: Content-Range "bytes <start>-<end>/<total>" and Content-Length
Headers(hasCR, crStart, crEnd, hasCL, cl) ==
    [hasCR |-> hasCR, crStart |-> crStart, crEnd |-> crEnd, hasCL |-> hasCL, cl |-> cl]

\* the bodies a server may send for an entry: any size up to a range for a
\* segment, the requested slice of the resource for a byte range
BodySizes(src, entry) ==
    IF src.kind = "list" THEN 0..RangeBytes
    ELSE {Max(0, Min(entry.url.end + 1, src.size) - entry.url.start)}

\* the headers a server may send with a body of b bytes starting at offset
HeadersFor(offset, b) ==
    {Headers(FALSE, 0, 0, FALSE, 0), Headers(FALSE, 0, 0, TRUE, b)}
        \cup (IF b >= 1 THEN {Headers(TRUE, offset, offset + b - 1, FALSE, 0)} ELSE {})
        \cup (IF b = 0 THEN {Headers(FALSE, 0, 0, TRUE, -1)} ELSE {})

Responses(src, entry) ==
    {[status |-> st, headers |-> Headers(FALSE, 0, 0, FALSE, 0), body |-> 0] :
        st \in {c \in StatusCodes : c \notin 200..299}}
      \cup UNION {{[status |-> st, headers |-> h, body |-> b] :
                      st \in {c \in StatusCodes : c \in 200..299},
                      h \in HeadersFor(entry.url.start, b)} :
                  b \in BodySizes(src, entry)}

\* every status below 400 taken as a success, as requests' Response.ok does
StatusOkBelow400(code) == code \in 200..399

\* HTTP_OK_CODES = range(200, 300)
StatusOk(code) == code \in 200..299

GetContentLength(h) ==
    IF h.hasCR THEN Length(h.crEnd - h.crStart)
    ELSE IF h.hasCL THEN Length(h.cl)
    ELSE NoLength

\* the check before the write left out
EmptyPacketNever(content_length) == FALSE

\* if content_length is not None and content_length <= 0: break
EmptyPacket(content_length) == content_length.known /\ content_length.n <= 0

\* the target opened with "wb": the file is truncated
OpenTruncate(content) == <<>>

\* spec.target.open("ab"): the content the writes are appended to
OpenTarget(content) == content

\* file.write(chunk) on a file opened for appending
FileWrite(content, chunk) == content \o chunk

\* only the first chunk of iter_content written
FirstChunkWritten(resp, written) == written >= Min(ChunkBytes, resp.body)

\* _append_file has consumed iter_content to its end
BodyWritten(resp, written) == written = resp.body

\* the size check reduced to the empty packet
ExhaustedWhenEmpty(content_length, bytes_exp) ==
    bytes_exp.some /\ content_length <= 0

\* the size check left out
ExhaustedNever(content_length, bytes_exp) == FALSE

\* the packet is smaller than required: the resource is exhausted
Exhausted(content_length, bytes_exp) ==
    bytes_exp.some /\ content_length < bytes_exp.n

InitD ==
    /\ dsource \in Sources
    /\ dfile0 \in {Body(0, n) : n \in 0..MaxOldBytes}
    /\ dfile = dfile0
    /\ dpc = "start"
    /\ dnext = 0
    /\ dreqs = <<>>
    /\ dread = 0
    /\ dcount = 0

IdleD ==
    /\ dsource = ListSource(<<>>)
    /\ dfile0 = <<>>
    /\ dfile = <<>>
    /\ dpc = "idle"
    /\ dnext = 0
    /\ dreqs = <<>>
    /\ dread = 0
    /\ dcount = 0

\* bytes_count = 0; with spec.target.open("ab") as file
Open ==
    /\ dpc = "start"
    /\ dfile' = OpenTarget(dfile)
    /\ dpc' = "loop"
    /\ UNCHANGED <<dsource, dfile0, dnext, dreqs, dread, dcount>>
    /\ UNCHANGED <<qvars, mvars, avars, rvars, xvars, svars, nvars, tvars, gvars, kvars, pvars, fvars>>

\* one pass of the for loop up to the write: take the next entry, GET it,
\* _raise_for_status, _get_content_length, break on an empty packet
Request ==
    /\ dpc = "loop"
    /\ HasNext(dsource, dnext)
    /\ Len(dreqs) < MaxRequests
    /\ LET entry == NextEntry(dsource, dnext) IN
       \E resp \in Responses(dsource, entry) :
          LET content_length == GetContentLength(resp.headers) IN
          /\ dnext' = dnext + 1
          /\ dreqs' = Append(dreqs, [entry |-> entry, resp |-> resp])
          /\ dread' = 0
          /\ dpc' = IF ~StatusOk(resp.status) THEN "failed"
                    ELSE IF EmptyPacket(content_length) THEN "done"
                    ELSE "write"
    /\ UNCHANGED <<dsource, dfile0, dfile, dcount>>
    /\ UNCHANGED <<qvars, mvars, avars, rvars, xvars, svars, nvars, tvars, gvars, kvars, pvars, fvars>>

\* one chunk of iter_content written by _append_file
WriteChunk ==
    /\ dpc = "write"
    /\ LET resp == dreqs[Len(dreqs)].resp IN
       /\ ~BodyWritten(resp, dread)
       /\ dread < resp.body
       /\ LET n == Min(ChunkBytes, resp.body - dread) IN
          /\ dfile' = FileWrite(dfile, [j \in 1..n |-> <<Len(dreqs), dread + j>>])
          /\ dread' = dread + n
    /\ UNCHANGED <<dsource, dfile0, dpc, dnext, dreqs, dcount>>
    /\ UNCHANGED <<qvars, mvars, avars, rvars, xvars, svars, nvars, tvars, gvars, kvars, pvars, fvars>>

\* the rest of the pass: bytes_count, the content length when no header gave
\* it, break on an empty or an undersized packet
FinishPacket ==
    /\ dpc = "write"
    /\ LET req == dreqs[Len(dreqs)]
           from_headers == GetContentLength(req.resp.headers)
           content_length == IF from_headers.known THEN from_headers.n ELSE dread
       IN /\ BodyWritten(req.resp, dread)
          /\ dcount' = dcount + dread
          /\ dpc' = IF content_length = 0 THEN "done"
                    ELSE IF Exhausted(content_length, req.entry.exp) THEN "done"
                    ELSE "loop"
    /\ UNCHANGED <<dsource, dfile0, dfile, dnext, dreqs, dread>>
    /\ UNCHANGED <<qvars, mvars, avars, rvars, xvars, svars, nvars, tvars, gvars, kvars, pvars, fvars>>

\* the source raises StopIteration: the for loop ends
EndOfSource ==
    /\ dpc = "loop"
    /\ ~HasNext(dsource, dnext)
    /\ dpc' = "done"
    /\ UNCHANGED <<dsource, dfile0, dfile, dnext, dreqs, dread, dcount>>
    /\ UNCHANGED <<qvars, mvars, avars, rvars, xvars, svars, nvars, tvars, gvars, kvars, pvars, fvars>>

Final == dpc \in {"done", "failed"}

Requested(i) == dreqs[i].entry

Response(i) == dreqs[i].resp

\* the bytes of the target written by this run, in file order
NewBytes == SelectSeq(dfile, LAMBDA byte : byte[1] >= 1)

\* the bodies of requests 1..n one after the other, the last one up to `last`
RECURSIVE Bodies(_, _)
Bodies(n, last) ==
    IF n = 0 THEN <<>>
    ELSE Bodies(n - 1, IF n = 1 THEN 0 ELSE Response(n - 1).body) \o Body(n, last)

\* the content length the run observes for request i: from the headers, or
\* the bytes read when no header gives it
Observed(i) ==
    LET h == Response(i).headers IN
    IF h.hasCR THEN h.crEnd - h.crStart
    ELSE IF h.hasCL THEN h.cl
    ELSE Response(i).body

\* C5: requests are issued one at a time in source order, request i+1 only
\* after the body of response i is completely appended, and the bytes the run
\* appends are the written bodies one after the other in source order.
C5_InOrderNoInterleaving ==
    /\ \A i \in 1..Len(dreqs) : Requested(i) = NextEntry(dsource, i - 1)
    /\ \A i \in 1..Len(dreqs), j \in 1..Len(dreqs) :
          i # j => Requested(i).url # Requested(j).url
    /\ NewBytes = Bodies(Len(dreqs), dread)

C5_Witness ==
    /\ Len(dreqs) = 3
    /\ dpc = "write"
    /\ Response(1).body = RangeBytes
    /\ Response(2).body = RangeBytes
    /\ dread = 1
    /\ Response(3).body > dread

\* C6: a response whose status is outside 200-299 raises DownloadRequestError:
\* nothing of it is appended, its URL is not requested again and no later
\* entry of the source is requested.
C6_BadStatusAborts ==
    \A i \in 1..Len(dreqs) :
        Response(i).status \notin 200..299 =>
            /\ dpc = "failed"
            /\ i = Len(dreqs)
            /\ dnext = i
            /\ \A k \in 1..Len(dfile) : dfile[k][1] # i
            /\ \A j \in 1..Len(dreqs) : j # i => Requested(j).url # Requested(i).url

C6_Witness ==
    /\ dpc = "failed"
    /\ Len(dreqs) = 2
    /\ Response(2).status = 404
    /\ NewBytes = Body(1, RangeBytes)
    /\ HasNext(dsource, dnext)

\* C7: when an entry carries an expected size and the observed content length
\* of its response is positive but smaller, the packet is appended and the run
\* stops: no further entry is requested.
C7_UndersizedPacketStops ==
    \A i \in 1..Len(dreqs) :
        (/\ Response(i).status \in 200..299
         /\ Requested(i).exp.some
         /\ Observed(i) > 0
         /\ Observed(i) < Requested(i).exp.n)
          => /\ i = Len(dreqs)
             /\ dnext = i
             /\ dpc \in {"write", "done"}
             /\ dpc = "done" => NewBytes = Bodies(i, Response(i).body)

C7_Witness ==
    /\ dsource.kind = "range"
    /\ dpc = "done"
    /\ Len(dreqs) = 3
    /\ Observed(1) = RangeBytes
    /\ Observed(2) = RangeBytes
    /\ Observed(3) > 0
    /\ Observed(3) < Requested(3).exp.n
    /\ Len(NewBytes) = dsource.size

\* C8: a run never modifies or truncates the bytes already in the target: the
\* content is at every moment the content before the run followed by bytes the
\* run wrote, bytes_count of them when the run has ended, and none when the
\* source is empty.
C8_AppendOnly ==
    /\ Len(dfile) >= Len(dfile0)
    /\ SubSeq(dfile, 1, Len(dfile0)) = dfile0
    /\ \A k \in (Len(dfile0) + 1)..Len(dfile) : dfile[k][1] >= 1
    /\ Final => Len(dfile) = Len(dfile0) + dcount
    /\ (dpc = "done" /\ dsource = ListSource(<<>>)) => dfile = dfile0

C8_Witness ==
    /\ dfile0 # <<>>
    /\ dpc = "failed"
    /\ Len(dfile) > Len(dfile0)

\* the most requests a finite resource can need: one per declared entry, or
\* one per range of the resource and one that finds it exhausted
RequestBound(src) ==
    IF src.kind = "list" THEN Len(src.exps) ELSE (src.size \div RangeBytes) + 1

\* C9: over a finite resource the run issues finitely many requests (never one
\* after the resource is exhausted) and ends: it is never left waiting.
C9_FiniteRequests ==
    /\ Len(dreqs) <= RequestBound(dsource)
    /\ dnext = Len(dreqs)
    /\ ~Final => ENABLED (Open \/ Request \/ WriteChunk \/ FinishPacket \/ EndOfSource)

C9_Witness ==
    /\ dsource = RangeSource(2 * RangeBytes)
    /\ dpc = "done"
    /\ Len(dreqs) = 3
    /\ Response(3).body = 0
    /\ Len(NewBytes) = dsource.size

\* C18: a response whose content length is 0 or less ends the run: nothing of
\* it is appended, no further entry of the source is requested, and the bytes
\* of the earlier packets stay as written.
C18_EmptyPacketEndsRun ==
    \A i \in 1..Len(dreqs) :
        (Response(i).status \in 200..299 /\ (Observed(i) <= 0 \/ Response(i).body = 0))
          => /\ i = Len(dreqs)
             /\ dnext = i
             /\ dpc \in {"write", "done"}
             /\ \A k \in 1..Len(dfile) : dfile[k][1] # i
             /\ dfile = dfile0 \o Bodies(i - 1, IF i = 1 THEN 0 ELSE Response(i - 1).body)

C18_Witness ==
    /\ dpc = "done"
    /\ dfile0 # <<>>
    /\ Len(dreqs) = 3
    /\ Response(3).headers.hasCL
    /\ Observed(3) = 0
    /\ dfile = dfile0 \o Body(1, RangeBytes) \o Body(2, RangeBytes)

\* C19: the k-th entry of a byte-range source (k = 0, 1, 2, ...) requests the
\* bytes k*N through (k+1)*N - 1 and carries the expected size N: the ranges
\* start at 0, each begins where the one before ends, and the source always
\* has a next entry.
C19_ContiguousRanges ==
    /\ \A k \in 0..MaxRequests :
          /\ GetUrlsByBytes(k + 1).url.start = k * RangeBytes
          /\ GetUrlsByBytes(k + 1).url.end = (k + 1) * RangeBytes - 1
          /\ GetUrlsByBytes(k + 1).exp = Exp(RangeBytes)
    /\ dsource.kind = "range" =>
          /\ HasNext(dsource, dnext)
          /\ \A i \in 1..Len(dreqs) :
                /\ Requested(i).url.start = (i - 1) * RangeBytes
                /\ Requested(i).url.end = i * RangeBytes - 1
                /\ Requested(i).exp = Exp(RangeBytes)
          /\ \A i \in 1..(Len(dreqs) - 1) :
                Requested(i + 1).url.start = Requested(i).url.end + 1

C19_Witness ==
    /\ dsource = RangeSource(MaxResource)
    /\ Len(dreqs) = 3
    /\ Requested(3).url.start = 2 * RangeBytes
    /\ dpc = "done"
    /\ Len(NewBytes) = MaxResource

\* every response of the run is a success and carries a Content-Range header
WithContentRange ==
    \A i \in 1..Len(dreqs) : StatusOk(Response(i).status) /\ Response(i).headers.hasCR

\* C25: in a byte-range transfer whose responses carry Content-Range
\* "bytes <start>-<end>/<total>" with an inclusive end, a response that
\* delivers a full range does not end the transfer: the run stops only at a
\* packet shorter than a range, and for a resource of L bytes exactly L bytes
\* are appended.
C25_FullRangeContinues ==
    (dsource.kind = "range" /\ dpc = "done" /\ WithContentRange) =>
        /\ Len(NewBytes) = dsource.size
        /\ \A i \in 1..Len(dreqs) : Response(i).body = RangeBytes => i < Len(dreqs)

(***************************************************************************)
(* Acquisition of one video: LoaderBase._get_video with _try_ensure_video, *)
(* _check_redirect, _try_disable_autoplay, _try_get_target_quality,        *)
(* _try_execute / _execute and VkLoader.get_media.  A step that raises     *)
(* names the exception; the handler around it decides what follows.        *)
(***************************************************************************)
MaxPolls == 2

\* except clauses of the _try_* wrappers
TryEnsureVideoCatches == {"AccessRestrictedError"}

TryDisableAutoplayCatches == {"TimeoutException"}

TryGetTargetQualityCatches == {"QualityNotFoundError", "TimeoutException"}

TryExecuteCatches ==
    {"TimeoutException", "MimeTypeNotFoundError", "InvalidMimeTypeError",
     "InvalidMpdError", "MediaNotFoundError", "DownloadRequestError"}

Step(phase, outcome) == [phase |-> phase, outcome |-> outcome]

\* an exception inside a wrapper: logged when an except clause names it,
\* propagated out of _get_video otherwise
Report(exc, catches) == IF exc \in catches THEN "logged" ELSE "unhandled"

\* if not self._try_get_target_quality(): return
AfterQualityIgnored(succeeded) == "discover"

AfterQuality(succeeded) == IF succeeded THEN "discover" ELSE "end"

InitA ==
    /\ apc = "ensure"
    /\ alog = <<>>
    /\ areport = "none"
    /\ atransfers = 0
    /\ amux = 0
    /\ apolls = 0

IdleA ==
    /\ apc = "idle"
    /\ alog = <<>>
    /\ areport = "none"
    /\ atransfers = 0
    /\ amux = 0
    /\ apolls = 0

\* a step of _get_video that changes nothing but the control point and the log
Advance(phase, outcome, nextpc, report) ==
    /\ alog' = Append(alog, Step(phase, outcome))
    /\ apc' = nextpc
    /\ areport' = report
    /\ UNCHANGED <<atransfers, amux, apolls>>
    /\ UNCHANGED <<qvars, mvars, dvars, rvars, xvars, svars, nvars, tvars, gvars, kvars, pvars, fvars>>

\* if not self._try_ensure_video(): return
TryEnsureVideo ==
    /\ apc = "ensure"
    /\ \/ Advance("ensure", "ok", "redirect", areport)
       \/ \E exc \in {"AccessRestrictedError", "FileExistsNoOverwriteError", "PathNotFoundError"} :
             Advance("ensure", exc, "end", Report(exc, TryEnsureVideoCatches))

\* self._check_redirect(): no source URL, the same origin, another origin
\* without a loader, or another origin whose loader's get(url) returns or raises
CheckRedirect ==
    /\ apc = "redirect"
    /\ \/ Advance("redirect", "same", "autoplay", areport)
       \/ Advance("redirect", "forwarded", "autoplay", areport)
       \/ \E exc \in {"VideoSourceNotFoundError", "LoaderNotFoundError", "RaisedByLoader"} :
             Advance("redirect", exc, "end", Report(exc, {}))

\* self._try_disable_autoplay(): a timeout is logged and the run goes on
TryDisableAutoplay ==
    /\ apc = "autoplay"
    /\ \/ Advance("autoplay", "ok", "quality", areport)
       \/ Advance("autoplay", "TimeoutException", "quality", areport)

\* if not self._try_get_target_quality(): return
TryGetTargetQuality ==
    /\ apc = "quality"
    /\ \/ /\ target' = GetTargetQuality(qualities, quality, exact)
          /\ alog' = Append(alog, Step("quality", target'.status))
          /\ apc' = AfterQuality(target'.status = "ok")
          /\ areport' = IF target'.status = "ok" THEN areport
                        ELSE Report(target'.status, TryGetTargetQualityCatches)
       \/ /\ target' = target
          /\ alog' = Append(alog, Step("quality", "TimeoutException"))
          /\ apc' = AfterQuality(FALSE)
          /\ areport' = Report("TimeoutException", TryGetTargetQualityCatches)
    /\ UNCHANGED <<qualities, quality, exact, atransfers, amux, apolls>>
    /\ UNCHANGED <<mvars, dvars, rvars, xvars, svars, nvars, tvars, gvars, kvars, pvars, fvars>>

\* one call of _get_urls_from_network_logs by WebDriverWait.until in get_media:
\* a manifest URL, the grouped URLs, AmbiguousUrlsError, or replay and False
Observe ==
    /\ apc = "discover"
    /\ apolls < MaxPolls
    /\ apolls' = apolls + 1
    /\ \/ /\ alog' = Append(alog, Step("discover", "mpd"))
          /\ apc' = "from_mpd"
          /\ areport' = areport
       \/ /\ alog' = Append(alog, Step("discover", "urls"))
          /\ apc' = "from_types_map"
          /\ areport' = areport
       \/ /\ alog' = Append(alog, Step("discover", "AmbiguousUrlsError"))
          /\ apc' = "end"
          /\ areport' = Report("AmbiguousUrlsError", TryExecuteCatches)
       \/ /\ alog' = Append(alog, Step("discover", "replay"))
          /\ apc' = "discover"
          /\ areport' = areport
    /\ UNCHANGED <<atransfers, amux>>
    /\ UNCHANGED <<qvars, mvars, dvars, rvars, xvars, svars, nvars, tvars, gvars, kvars, pvars, fvars>>

\* the wait raises TimeoutException, but the loader waits again
AfterTimeoutRetry == "discover"

\* TimeoutException leaves get_media and _execute; _try_execute logs it and returns
AfterTimeout == "end"

\* the wait's timeout elapses after an observation that returned False
DiscoveryTimeout ==
    /\ apc = "discover"
    /\ apolls >= 1
    /\ Advance("discover", "TimeoutException", AfterTimeout,
               Report("TimeoutException", TryExecuteCatches))

\* _get_media_from_mpd
MediaFromMpd ==
    /\ apc = "from_mpd"
    /\ \/ Advance("from_mpd", "ok", "audio", areport)
       \/ \E exc \in {"InvalidMpdError", "MediaNotFoundError", "KeyError"} :
             Advance("from_mpd", exc, "end", Report(exc, TryExecuteCatches))

\* _get_media_from_types_map
MediaFromTypesMap ==
    /\ apc = "from_types_map"
    /\ \/ Advance("from_types_map", "ok", "audio", areport)
       \/ \E exc \in {"MimeTypeNotFoundError", "InvalidMimeTypeError", "MediaNotFoundError"} :
             Advance("from_types_map", exc, "end", Report(exc, TryExecuteCatches))

\* the error of a transfer is swallowed and _execute goes on
AfterFailedTransferContinue(nextpc) == nextpc

\* DownloadRequestError leaves _execute; _try_execute logs it and returns
AfterFailedTransfer(nextpc) == "end"

\* self._download_resource_by_spec(session, media.audio), then media.video
Transfer(phase, nextpc) ==
    /\ apc = phase
    /\ atransfers' = atransfers + 1
    /\ \/ /\ alog' = Append(alog, Step(phase, "ok"))
          /\ apc' = nextpc
          /\ areport' = areport
       \/ /\ alog' = Append(alog, Step(phase, "DownloadRequestError"))
          /\ apc' = AfterFailedTransfer(nextpc)
          /\ areport' = Report("DownloadRequestError", TryExecuteCatches)
    /\ UNCHANGED <<amux, apolls>>
    /\ UNCHANGED <<qvars, mvars, dvars, rvars, xvars, svars, nvars, tvars, gvars, kvars, pvars, fvars>>

TransferAudio == Transfer("audio", "video")

TransferVideo == Transfer("video", "mux")

\* video_with_audio.write_videofile(output_path)
Mux ==
    /\ apc = "mux"
    /\ amux' = amux + 1
    /\ alog' = Append(alog, Step("mux", "ok"))
    /\ apc' = "end"
    /\ UNCHANGED <<areport, atransfers, apolls>>
    /\ UNCHANGED <<qvars, mvars, dvars, rvars, xvars, svars, nvars, tvars, gvars, kvars, pvars, fvars>>

ResolutionPhases == {"quality", "discover", "from_mpd", "from_types_map"}

\* outcomes of a resolution step that are not failures
Passing == {"ok", "mpd", "urls", "replay"}

Failed(i) == alog[i].phase \in ResolutionPhases /\ alog[i].outcome \notin Passing

RECURSIVE Replays(_)
Replays(n) ==
    IF n = 0 THEN 0
    ELSE Replays(n - 1) + (IF alog[n] = Step("discover", "replay") THEN 1 ELSE 0)

TimedOut(i) == alog[i] = Step("discover", "TimeoutException")

\* C21: the discovery loop of get_media always ends: an observation returns
\* the manifest URL or the grouped URLs (or raises), or the timeout of the
\* wait elapses; then discovery fails with TimeoutException, which is logged,
\* replay() has run a bounded number of times, nothing follows the timeout
\* and no segment transfer or merge has been made.
C21_DiscoveryEnds ==
    /\ (apc = "discover") ~> (apc \in {"from_mpd", "from_types_map", "end"})
    /\ [](\A i \in 1..Len(alog) :
             TimedOut(i) =>
                /\ i = Len(alog)
                /\ apc = "end"
                /\ areport = "logged"
                /\ Replays(Len(alog)) \in 1..MaxPolls
                /\ atransfers = 0
                /\ amux = 0)

C21_Witness ==
    /\ apc = "end"
    /\ alog # <<>>
    /\ TimedOut(Len(alog))
    /\ Replays(Len(alog)) = MaxPolls
    /\ atransfers = 0

Forwarded(i) == alog[i] = Step("redirect", "forwarded")

\* C24: once the acquisition has been forwarded to the loader of the video
\* source, the original loader takes no further step for that video: it
\* negotiates no quality, resolves no media, transfers nothing and does not
\* invoke the merge.
C24_ForwardingEndsOriginal ==
    \A i \in 1..Len(alog) :
        Forwarded(i) =>
            /\ i = Len(alog)
            /\ apc = "end"
            /\ target = Pending
            /\ atransfers = 0
            /\ amux = 0

TransferFailed(i) ==
    alog[i].phase \in {"audio", "video"} /\ alog[i].outcome = "DownloadRequestError"

VkVideoRu == <<"v", "k", "v", "i", "d", "e", "o", ".", "r", "u">>

OkRu == <<"o", "k", ".", "r", "u">>

VkCom == <<"v", "k", ".", "c", "o", "m">>

\* network locations of pages and of source URLs; the empty one is that of a
\* URL without a host
Netlocs ==
    {VkVideoRu, <<"m", ".">> \o VkVideoRu, OkRu, <<"m", ".">> \o OkRu,
     <<"b", "o">> \o OkRu, OkRu \o <<".", "x">>, VkCom, <<>>}

Url(netloc, path) == [netloc |-> netloc, path |-> path]

\* get_source_url() found nothing: None or the empty string
NoSourceUrl == Url(<<>>, <<>>)

SourceUrls == {Url(n, <<"/", "v">>) : n \in Netlocs} \cup {NoSourceUrl}

PageUrls == {Url(n, <<"/", "p">>) : n \in {VkCom, VkVideoRu, <<"m", ".">> \o OkRu}}

\* the keyword arguments a loader is created with
RequestParameters ==
    {[quality |-> q, playlist |-> FALSE, exact |-> e] :
        q \in {[kind |-> "max", value |-> 0], [kind |-> "num", value |-> QualityOf(2)]},
        e \in BOOLEAN}

NoLoaderClass == "None"

NoException == [name |-> "none", arg |-> <<>>]

LoaderNotFoundError(netloc) == [name |-> "LoaderNotFoundError", arg |-> netloc]

VideoSourceNotFoundError == [name |-> "VideoSourceNotFoundError", arg |-> <<>>]

RaisedByLoader == [name |-> "RaisedByLoader", arg |-> <<>>]

\* str.endswith(suffix)
EndsWith(str, suffix) ==
    /\ Len(str) >= Len(suffix)
    /\ SubSeq(str, Len(str) - Len(suffix) + 1, Len(str)) = suffix

\* the table looked up by equality of the whole network location
GetLoaderClassExact(url) ==
    IF url.netloc = VkVideoRu THEN <<url.netloc, "VkVideoLoader">>
    ELSE IF url.netloc = OkRu THEN <<url.netloc, "OkLoader">>
    ELSE <<url.netloc, NoLoaderClass>>

\* get_loader_class(url): (netloc, loader class or None)
GetLoaderClass(url) ==
    IF EndsWith(url.netloc, VkVideoRu) THEN <<url.netloc, "VkVideoLoader">>
    ELSE IF EndsWith(url.netloc, OkRu) THEN <<url.netloc, "OkLoader">>
    ELSE <<url.netloc, NoLoaderClass>>

\* loader_class(driver=self.driver, **self._kwargs)
NewLoader(class, kwargs) == [class |-> class, kwargs |-> kwargs]

InitR ==
    /\ rpage \in PageUrls
    /\ rsource \in SourceUrls
    /\ rkwargs \in RequestParameters
    /\ rloaders = <<>>
    /\ rgets = <<>>
    /\ rpc = "check"
    /\ rexc = NoException

IdleR ==
    /\ rpage = Url(VkCom, <<>>)
    /\ rsource = NoSourceUrl
    /\ rkwargs = [quality |-> [kind |-> "max", value |-> 0], playlist |-> FALSE, exact |-> FALSE]
    /\ rloaders = <<>>
    /\ rgets = <<>>
    /\ rpc = "idle"
    /\ rexc = NoException

\* _check_redirect up to the call of _redirect: no source URL raises, the same
\* network location returns, another one goes on to _redirect
CompareOrigins ==
    /\ rpc = "check"
    /\ IF rsource = NoSourceUrl
       THEN rpc' = "raised" /\ rexc' = VideoSourceNotFoundError
       ELSE /\ rpc' = IF rpage.netloc # rsource.netloc THEN "redirect" ELSE "done"
            /\ rexc' = rexc
    /\ UNCHANGED <<rpage, rsource, rkwargs, rloaders, rgets>>
    /\ UNCHANGED <<qvars, mvars, dvars, avars, xvars, svars, nvars, tvars, gvars, kvars, pvars, fvars>>

\* _redirect up to the call of loader.get(url)
Redirect ==
    /\ rpc = "redirect"
    /\ LET found == GetLoaderClass(rsource)
           netloc == found[1]
           loader_class == found[2]
       IN IF loader_class = NoLoaderClass
          THEN /\ rpc' = "raised"
               /\ rexc' = LoaderNotFoundError(netloc)
               /\ UNCHANGED <<rloaders, rgets>>
          ELSE /\ rloaders' = Append(rloaders, NewLoader(loader_class, rkwargs))
               /\ rgets' = Append(rgets, [loader |-> Len(rloaders) + 1, url |-> rsource])
               /\ rpc' = "forwarded"
               /\ rexc' = rexc
    /\ UNCHANGED <<rpage, rsource, rkwargs>>
    /\ UNCHANGED <<qvars, mvars, dvars, avars, xvars, svars, nvars, tvars, gvars, kvars, pvars, fvars>>

\* loader.get(url) returns, or raises what the other loader does not handle
LoaderGetEnds ==
    /\ rpc = "forwarded"
    /\ \/ rpc' = "done" /\ rexc' = rexc
       \/ rpc' = "raised" /\ rexc' = RaisedByLoader
    /\ UNCHANGED <<rpage, rsource, rkwargs, rloaders, rgets>>
    /\ UNCHANGED <<qvars, mvars, dvars, avars, xvars, svars, nvars, tvars, gvars, kvars, pvars, fvars>>

\* the domain table of the loaders: the class registered for a domain
DomainTable == {<<VkVideoRu, "VkVideoLoader">>, <<OkRu, "OkLoader">>}

\* the classes registered for an origin: those whose domain is a suffix of it
RegisteredFor(origin) ==
    {row[2] : row \in {r \in DomainTable :
        \E n \in 0..Len(origin) : SubSeq(origin, n + 1, Len(origin)) = r[1]}}

\* _check_redirect has gone past its decision
Routed == rpc \in {"forwarded", "done", "raised"} /\ rsource # NoSourceUrl

\* C11: when the origin of the source URL differs from the page's: with no
\* loader registered for it (suffix match) LoaderNotFoundError(origin) is
\* raised and no loader is constructed; otherwise exactly one loader, of the
\* registered class, is constructed with the parameters of the request and its
\* get is called exactly once with the source URL.  With equal origins no
\* loader is constructed.
C11_RedirectRouting ==
    Routed =>
        LET origin == rsource.netloc
            differs == origin # rpage.netloc
        IN /\ (differs /\ RegisteredFor(origin) = {}) =>
                  /\ rpc = "raised"
                  /\ rexc = LoaderNotFoundError(origin)
                  /\ rloaders = <<>>
                  /\ rgets = <<>>
           /\ (differs /\ RegisteredFor(origin) # {}) =>
                  /\ Len(rloaders) = 1
                  /\ rloaders[1].class \in RegisteredFor(origin)
                  /\ rloaders[1].kwargs = rkwargs
                  /\ rgets = <<[loader |-> 1, url |-> rsource]>>
                  /\ rexc \in {NoException, RaisedByLoader}
           /\ ~differs =>
                  /\ rloaders = <<>>
                  /\ rgets = <<>>
                  /\ rpc = "done"

C11_Witness ==
    /\ rpc = "done"
    /\ rpage.netloc = VkCom
    /\ rsource.netloc = <<"m", ".">> \o OkRu
    /\ rloaders = <<NewLoader("OkLoader", rkwargs)>>
    /\ rgets = <<[loader |-> 1, url |-> rsource]>>

(***************************************************************************)
(* The two transfers of LoaderBase._execute: the audio resource, then the  *)
(* video resource, then the merge.  Each transfer is a run of              *)
(* _download_resource_by_spec, taken by the actions of the segmented       *)
(* download above.                                                         *)
(***************************************************************************)
\* sources of a MediaSpec: URL lists of a manifest or byte-range generators
ExecuteSources ==
    {ListSource([i \in 1..n |-> NoExp]) : n \in 1..2}
        \cup {RangeSource(size) : size \in {1, RangeBytes}}

MediaSpecs ==
    {m \in [audio : ExecuteSources, video : ExecuteSources] : m.audio.kind = m.video.kind}

\* the video transfer started whatever became of the audio transfer
AfterTransferAlways(media, outcome) ==
    IF media = "audio" THEN "video" ELSE "mux"

\* what _execute does when a transfer has returned ("done") or raised
AfterTransfer(media, outcome) ==
    IF outcome = "failed" THEN "end"
    ELSE IF media = "audio" THEN "video" ELSE "mux"

InitX ==
    /\ xmedia \in MediaSpecs
    /\ xpc = "audio"
    /\ xdone = <<>>
    /\ xmux = 0

IdleX ==
    /\ xmedia = [audio |-> ListSource(<<>>), video |-> ListSource(<<>>)]
    /\ xpc = "idle"
    /\ xdone = <<>>
    /\ xmux = 0

\* self._download_resource_by_spec(session, media.audio / media.video) is
\* called; the target is a file of the new temporary directory
StartTransfer ==
    /\ xpc \in {"audio", "video"}
    /\ dpc = "idle"
    /\ dsource' = xmedia[xpc]
    /\ dfile0' = <<>>
    /\ dfile' = <<>>
    /\ dpc' = "start"
    /\ dnext' = 0
    /\ dreqs' = <<>>
    /\ dread' = 0
    /\ dcount' = 0
    /\ UNCHANGED xvars
    /\ UNCHANGED <<qvars, mvars, avars, rvars, svars, nvars, tvars, gvars, kvars, pvars, fvars>>

\* the call returns or raises DownloadRequestError
EndTransfer ==
    /\ xpc \in {"audio", "video"}
    /\ Final
    /\ xdone' = Append(xdone, [media |-> xpc, reqs |-> dreqs, outcome |-> dpc])
    /\ xpc' = AfterTransfer(xpc, dpc)
    /\ dsource' = ListSource(<<>>)
    /\ dfile0' = <<>>
    /\ dfile' = <<>>
    /\ dpc' = "idle"
    /\ dnext' = 0
    /\ dreqs' = <<>>
    /\ dread' = 0
    /\ dcount' = 0
    /\ UNCHANGED <<xmedia, xmux>>
    /\ UNCHANGED <<qvars, mvars, avars, rvars, svars, nvars, tvars, gvars, kvars, pvars, fvars>>

\* video_with_audio.write_videofile(output_path)
WriteVideofile ==
    /\ xpc = "mux"
    /\ xmux' = xmux + 1
    /\ xpc' = "end"
    /\ UNCHANGED <<xmedia, xdone>>
    /\ UNCHANGED <<qvars, mvars, dvars, avars, rvars, svars, nvars, tvars, gvars, kvars, pvars, fvars>>

\* the media type of every request of the ended transfers, in time order
RECURSIVE EndedRequests(_)
EndedRequests(n) ==
    IF n = 0 THEN <<>>
    ELSE EndedRequests(n - 1) \o [i \in 1..Len(xdone[n].reqs) |-> xdone[n].media]

\* the media type of every request issued so far, in time order
RequestTrace == EndedRequests(Len(xdone)) \o [i \in 1..Len(dreqs) |-> xpc]

AudioTransferEnded(outcome) ==
    Len(xdone) >= 1 /\ xdone[1].media = "audio" /\ xdone[1].outcome = outcome

\* C12: the audio resource is drained to its end before the first request of
\* the video resource; no audio request follows a video request; when the
\* audio transfer fails no video request is issued.
C12_AudioDrainedBeforeVideo ==
    /\ \A i \in 1..Len(RequestTrace), j \in 1..Len(RequestTrace) :
          (RequestTrace[i] = "video" /\ RequestTrace[j] = "audio") => j < i
    /\ (\E i \in 1..Len(RequestTrace) : RequestTrace[i] = "video")
          => AudioTransferEnded("done")
    /\ AudioTransferEnded("failed") =>
          /\ \A i \in 1..Len(RequestTrace) : RequestTrace[i] = "audio"
          /\ xpc = "end"
          /\ dpc = "idle"
          /\ Len(xdone) = 1

C12_Witness ==
    /\ xpc = "video"
    /\ AudioTransferEnded("done")
    /\ Len(xdone[1].reqs) = 2
    /\ Len(dreqs) = 2
    /\ dpc = "write"

(***************************************************************************)
(* Media types, MIME types and the target file of a resource, named after  *)
(* its MIME type (VkLoader._get_resource_from_mpd and                      *)
(* _get_media_from_types_map).                                             *)
(***************************************************************************)
\* MediaType.AUDIO and MediaType.VIDEO (StrEnum, auto()), in definition order
AudioType == <<"a", "u", "d", "i", "o">>

VideoType == <<"v", "i", "d", "e", "o">>

MediaTypeValues == <<AudioType, VideoType>>

\* MIME types of the media served
VideoMp4 == VideoType \o <<"/", "m", "p", "4">>

AudioMp4 == AudioType \o <<"/", "m", "p", "4">>

\* str.replace(old, new) for a one-character old
RECURSIVE Replace(_, _, _)
Replace(str, old, new) ==
    IF str = <<>> THEN <<>>
    ELSE (IF Head(str) = old THEN new ELSE <<Head(str)>>) \o Replace(Tail(str), old, new)

\* directory / file with file = mime_type.replace("/", ".")
TargetOf(mime_type) == Replace(mime_type, "/", <<".">>)

(***************************************************************************)
(* Selection of the representations of a manifest:                         *)
(* VkLoader._get_media_from_mpd, _get_resource_from_mpd,                   *)
(* _get_video_representation, _get_audio_representation and                *)
(* _get_quality_from_representation.  A Representation element is its      *)
(* position in the AdaptationSet and its quality attribute.                *)
(***************************************************************************)
MaxVideoReps == 2

MaxAudioReps == 3

\* the keys of MPD_QUALITIES
MpdTiers == {"mobile", "lowest", "low", "medium", "high", "fullhd"}

\* MPD_QUALITIES[q_str] for a key of the table
MpdQuality(q_str) ==
    CASE q_str = "mobile" -> 144
      [] q_str = "lowest" -> 240
      [] q_str = "low" -> 360
      [] q_str = "medium" -> 480
      [] q_str = "high" -> 720
      [] q_str = "fullhd" -> 1080

\* quality attributes of the manifests explored: three keys of the table and
\* a name the table does not have
ManifestTiers == {"lowest", "high", "fullhd", "quadhd"}

\* target qualities: below, at, between and above the qualities explored
TargetQualities == {144, 240, 500, 720, 1080, 1440}

Representation(i, q_str) == [id |-> i, quality |-> q_str]

NoRepresentation == Representation(0, "")

RepresentationLists(max) ==
    UNION {{[i \in 1..n |-> Representation(i, f[i])] : f \in [1..n -> ManifestTiers]} :
              n \in 1..max}

NotSelected ==
    [status |-> "pending", rep |-> NoRepresentation, media |-> "", quality |-> 0]

Selected(r) == [status |-> "ok", rep |-> r, media |-> "", quality |-> 0]

\* MPD_QUALITIES[q_str] raised KeyError
KeyError == [status |-> "KeyError", rep |-> NoRepresentation, media |-> "", quality |-> 0]

MediaNotFoundError(media_type, q) ==
    [status |-> "MediaNotFoundError", rep |-> NoRepresentation,
     media |-> media_type, quality |-> q]

\* the representation was selected but an element or attribute below it is missing
InvalidMpdError(r) == [status |-> "InvalidMpdError", rep |-> r, media |-> "", quality |-> 0]

\* the first representation at or above the target taken for the video
GetVideoRepresentationAtLeast(rs, target_quality) ==
    LET hits == {i \in 1..Len(rs) :
                    rs[i].quality \notin MpdTiers \/ MpdQuality(rs[i].quality) >= target_quality}
    IN IF hits = {} THEN NotSelected
       ELSE IF rs[SetMin(hits)].quality \notin MpdTiers THEN KeyError
       ELSE Selected(rs[SetMin(hits)])

\* _get_video_representation: the for loop ends at the first representation
\* whose quality is the target, or whose quality attribute is no key of the
\* table; NotSelected stands for the None it returns otherwise
GetVideoRepresentation(rs, target_quality) ==
    LET hits == {i \in 1..Len(rs) :
                    rs[i].quality \notin MpdTiers \/ MpdQuality(rs[i].quality) = target_quality}
    IN IF hits = {} THEN NotSelected
       ELSE IF rs[SetMin(hits)].quality \notin MpdTiers THEN KeyError
       ELSE Selected(rs[SetMin(hits)])

\* q_prev before the first pass of the loop
NoQuality == -1

\* the for loop over rs_sorted from its i-th item: the index of the item
\* returned, 0 when the loop ends without returning
RECURSIVE AudioLoop(_, _, _, _)
AudioLoop(qs, i, q_prev, target_quality) ==
    IF i > Len(qs) THEN 0
    ELSE IF (IF q_prev = NoQuality THEN 0 ELSE q_prev) < target_quality
               /\ target_quality <= qs[i]
         THEN i
         ELSE AudioLoop(qs, i + 1, qs[i], target_quality)

\* the audio representation taken by exact match, as the video one is
GetAudioRepresentationExact(rs, target_quality) ==
    GetVideoRepresentation(rs, target_quality)

\* _get_audio_representation: rs_map keeps the last representation of each
\* quality, rs_sorted lists the qualities in ascending order
GetAudioRepresentation(rs, target_quality) ==
    IF \E i \in 1..Len(rs) : rs[i].quality \notin MpdTiers THEN KeyError
    ELSE LET keys == {MpdQuality(rs[i].quality) : i \in 1..Len(rs)}
             rs_map == [q \in keys |->
                          rs[SetMax({i \in 1..Len(rs) : MpdQuality(rs[i].quality) = q})]]
             rs_sorted == Sorted(keys)
             found == AudioLoop(rs_sorted, 1, NoQuality, target_quality)
         IN IF found # 0 THEN Selected(rs_map[rs_sorted[found]])
            ELSE IF rs # <<>> THEN Selected(rs_map[PyIndex(rs_sorted, -1)])
            ELSE NotSelected

\* _get_resource_from_mpd from the selection on: no representation raises
\* MediaNotFoundError; a selected one is read further, where a missing
\* element or attribute raises InvalidMpdError
GetResourceFromMpd(media_type, rep, target_quality) ==
    IF rep = NotSelected THEN {MediaNotFoundError(media_type, target_quality)}
    ELSE IF rep.status = "ok" THEN {rep, InvalidMpdError(rep.rep)}
    ELSE {rep}

InitS ==
    /\ videoReps \in RepresentationLists(MaxVideoReps)
    /\ audioReps \in RepresentationLists(MaxAudioReps)
    /\ targetQuality \in TargetQualities
    /\ selected = [video |-> NotSelected, audio |-> NotSelected]
    /\ mediaSpec = "none"

\* no target is built yet
NoTarget == <<>>

\* the mimeType attributes of a manifest whose video representations are
\* video/mp4 and whose audio representations are audio/mp4
InitK ==
    /\ videoMimes = [i \in 1..Len(videoReps) |-> VideoMp4]
    /\ audioMimes = [i \in 1..Len(audioReps) |-> AudioMp4]
    /\ mtargets = [video |-> NoTarget, audio |-> NoTarget]

IdleK ==
    /\ videoMimes = <<>>
    /\ audioMimes = <<>>
    /\ mtargets = [video |-> NoTarget, audio |-> NoTarget]

IdleS ==
    /\ videoReps = <<>>
    /\ audioReps = <<>>
    /\ targetQuality = 0
    /\ selected = [video |-> NotSelected, audio |-> NotSelected]
    /\ mediaSpec = "idle"

\* video=self._get_resource_from_mpd(mpd_root, MediaType.VIDEO, ...)
VideoResource ==
    /\ mediaSpec = "none"
    /\ selected.video = NotSelected
    /\ \E res \in GetResourceFromMpd("video",
                     GetVideoRepresentation(videoReps, targetQuality), targetQuality) :
          /\ selected' = [selected EXCEPT !.video = res]
          /\ mtargets' = IF res.status = "ok"
                         THEN [mtargets EXCEPT !.video = TargetOf(videoMimes[res.rep.id])]
                         ELSE mtargets
    /\ UNCHANGED <<videoReps, audioReps, targetQuality, mediaSpec, videoMimes, audioMimes>>
    /\ UNCHANGED <<qvars, mvars, dvars, avars, rvars, xvars, nvars, tvars, gvars, pvars, fvars>>

\* self._get_resource_from_mpd(mpd_root, MediaType.AUDIO, ...); the MediaSpec
\* is built when both resources are
AudioResource ==
    /\ mediaSpec = "none"
    /\ selected.audio = NotSelected
    /\ \E res \in GetResourceFromMpd("audio",
                     GetAudioRepresentation(audioReps, targetQuality), targetQuality) :
          /\ selected' = [selected EXCEPT !.audio = res]
          /\ mediaSpec' = IF res.status = "ok" /\ selected.video.status = "ok"
                          THEN "built" ELSE "none"
          /\ mtargets' = IF res.status = "ok"
                         THEN [mtargets EXCEPT !.audio = TargetOf(audioMimes[res.rep.id])]
                         ELSE mtargets
    /\ UNCHANGED <<videoReps, audioReps, targetQuality, videoMimes, audioMimes>>
    /\ UNCHANGED <<qvars, mvars, dvars, avars, rvars, xvars, nvars, tvars, gvars, pvars, fvars>>

\* MediaSpec(video=..., audio=...): the audio resource is resolved after the
\* video resource, when that has not raised
AudioAfterVideo == selected.video.status = "ok" /\ AudioResource

\* the representations of a list whose quality attribute maps to q
OfQuality(rs, q) ==
    {rs[i] : i \in {j \in 1..Len(rs) :
                       rs[j].quality \in MpdTiers /\ MpdQuality(rs[j].quality) = q}}

AllMapped(rs) == \A i \in 1..Len(rs) : rs[i].quality \in MpdTiers

MappedQualities(rs) == {MpdQuality(rs[i].quality) : i \in 1..Len(rs)}

\* C14: with every quality attribute a key of the tier table, the audio
\* representation taken is one of the lowest quality at or above the target,
\* and one of the highest quality when none is at or above it; one is always
\* taken from a non-empty list.
C14_AudioLowestAtOrAboveElseHighest ==
    (selected.audio # NotSelected /\ AllMapped(audioReps)) =>
        LET qs == MappedQualities(audioReps)
            atOrAbove == {q \in qs : q >= targetQuality}
        IN /\ selected.audio.status \in {"ok", "InvalidMpdError"}
           /\ atOrAbove # {} =>
                 selected.audio.rep \in OfQuality(audioReps, SetMin(atOrAbove))
           /\ atOrAbove = {} =>
                 selected.audio.rep \in OfQuality(audioReps, SetMax(qs))

C14_Witness ==
    /\ audioReps = <<Representation(1, "fullhd"), Representation(2, "lowest"),
                     Representation(3, "high")>>
    /\ targetQuality = 500
    /\ selected.audio = Selected(Representation(3, "high"))

\* manifests explored for the target files: short lists over two tiers, each
\* Representation with a mimeType attribute of its own
MaxTargetReps == 2

TargetTiers == {"lowest", "high"}

TargetRepresentationLists ==
    UNION {{[i \in 1..n |-> Representation(i, f[i])] : f \in [1..n -> TargetTiers]} :
              n \in 1..MaxTargetReps}

InitTargetFiles ==
    /\ videoReps \in TargetRepresentationLists
    /\ audioReps \in TargetRepresentationLists
    /\ targetQuality \in {MpdQuality(t) : t \in TargetTiers}
    /\ selected = [video |-> NotSelected, audio |-> NotSelected]
    /\ mediaSpec = "none"
    /\ videoMimes \in [1..Len(videoReps) -> {VideoMp4, AudioMp4}]
    /\ audioMimes \in [1..Len(audioReps) -> {VideoMp4, AudioMp4}]
    /\ mtargets = [video |-> NoTarget, audio |-> NoTarget]

MaxLog == 4

MaxObservedQualities == 2

MpdSuffix == <<".", "m", "p", "d">>

\* the name of a performance entry: the URL's path and, when its query has
\* them, the bytes and type parameters
Name(path, bytes, type) == [path |-> path, bytes |-> bytes, type |-> type]

\* the value of a bytes parameter: "<start>-<end>"
BytesValue(start, end) == Str(start) \o <<"-">> \o Str(end)

\* the query has no bytes parameter
NoBytes == <<>>

LogEntry(initiator_type, name) == [initiatorType |-> initiator_type, name |-> name]

ManifestName == Name(<<"v">> \o MpdSuffix, NoBytes, 0)

RangeName(start, type) ==
    Name(<<"v">>, BytesValue(start, start + RangeBytes - 1), type)

\* what the page may add to the log: a manifest by fetch or by another
\* initiator, a range starting at 0 of either type, a range starting later
LogEntries ==
    {LogEntry("fetch", ManifestName), LogEntry("xmlhttprequest", ManifestName),
     LogEntry("fetch", RangeName(0, 1)), LogEntry("fetch", RangeName(0, 2)),
     LogEntry("fetch", RangeName(RangeBytes, 1))}

\* str.startswith(prefix)
StartsWith(str, prefix) ==
    Len(str) >= Len(prefix) /\ SubSeq(str, 1, Len(prefix)) = prefix

NoMpd == Name(<<>>, NoBytes, 0)

\* urls[query_type].append(name): the dict as its items in insertion order
AddUrl(urls, query_type, name) ==
    IF \E g \in 1..Len(urls) : urls[g].type = query_type
    THEN [g \in 1..Len(urls) |->
            IF urls[g].type = query_type
            THEN [type |-> query_type, names |-> Append(urls[g].names, name)]
            ELSE urls[g]]
    ELSE Append(urls, [type |-> query_type, names |-> <<name>>])

\* the for loop over network_logs from its i-th entry, with its break
RECURSIVE ScanLog(_, _, _, _, _)
ScanLog(network_logs, i, mpd, urls, count) ==
    IF i > Len(network_logs) THEN [mpd |-> mpd, urls |-> urls, count |-> count]
    ELSE LET name == network_logs[i].name IN
         IF network_logs[i].initiatorType # "fetch"
         THEN ScanLog(network_logs, i + 1, mpd, urls, count)
         ELSE IF EndsWith(name.path, MpdSuffix)
         THEN [mpd |-> name, urls |-> urls, count |-> count]
         ELSE IF name.bytes # NoBytes /\ StartsWith(name.bytes, <<"0">>)
         THEN ScanLog(network_logs, i + 1, mpd, AddUrl(urls, name.type, name), count + 1)
         ELSE ScanLog(network_logs, i + 1, mpd, urls, count)

\* one URL per quality taken for enough
EnoughUrlsOnePerQuality(count, qs) == count >= Cardinality(qs)

\* count >= 2 * len(self.qualities)
EnoughUrls(count, qs) == count >= 2 * Cardinality(qs)

Outcome(kind, mpd, urls, replays) ==
    [kind |-> kind, mpd |-> mpd, urls |-> urls, replays |-> replays]

\* _get_urls_from_network_logs: what it returns or raises, and the calls of
\* self.replay() it makes
GetUrlsFromNetworkLogs(network_logs, qs) ==
    LET scan == ScanLog(network_logs, 1, NoMpd, <<>>, 0) IN
    IF scan.mpd # NoMpd /\ scan.urls # <<>>
    THEN Outcome("AmbiguousUrlsError", scan.mpd, scan.urls, 0)
    ELSE IF scan.mpd # NoMpd THEN Outcome("mpd", scan.mpd, <<>>, 0)
    ELSE IF EnoughUrls(scan.count, qs) THEN Outcome("urls", NoMpd, scan.urls, 0)
    ELSE Outcome("False", NoMpd, <<>>, 1)

\* self.qualities once the target quality is resolved
InitObservedQualities ==
    /\ qualities \in {{QualityOf(i) : i \in 1..n} : n \in 1..MaxObservedQualities}
    /\ quality = [kind |-> "max", value |-> 0]
    /\ exact = FALSE
    /\ target = Found(SetMax(qualities))

InitN ==
    /\ nlog = <<>>
    /\ nobs = <<>>

IdleN ==
    /\ nlog = <<>>
    /\ nobs = <<>>

\* the wait goes on: no observation yet, or the last one returned False
Waiting == IF nobs = <<>> THEN TRUE ELSE nobs[Len(nobs)].result.kind = "False"

\* the page requests a resource: the log gets an entry
PageFetches ==
    /\ Waiting
    /\ Len(nlog) < MaxLog
    /\ \E entry \in LogEntries : nlog' = Append(nlog, entry)
    /\ UNCHANGED nobs
    /\ UNCHANGED <<qvars, mvars, dvars, avars, rvars, xvars, svars, tvars, gvars, kvars, pvars, fvars>>

\* the wait calls _get_urls_from_network_logs
ObserveLog ==
    /\ Waiting
    /\ Len(nobs) < MaxPolls
    /\ nobs' = Append(nobs, [seen |-> Len(nlog),
                             result |-> GetUrlsFromNetworkLogs(nlog, qualities)])
    /\ UNCHANGED nlog
    /\ UNCHANGED <<qvars, mvars, dvars, avars, rvars, xvars, svars, tvars, gvars, kvars, pvars, fvars>>

\* the entries the o-th observation saw
SeenBy(o) == SubSeq(nlog, 1, nobs[o].seen)

IsFetch(entry) == entry.initiatorType = "fetch"

IsManifest(entry) == IsFetch(entry) /\ entry.name = ManifestName

\* a fetch of a byte range starting at offset 0
IsZeroBasedRange(entry) ==
    IsFetch(entry) /\ \E t \in 1..2 : entry.name = RangeName(0, t)

ZeroBasedRanges(log) == {i \in 1..Len(log) : IsZeroBasedRange(log[i])}

ManifestSeen(log) == \E i \in 1..Len(log) : IsManifest(log[i])

\* C15: an observation that sees, among the fetch entries, a manifest URL and
\* a byte-range URL starting at 0, in whatever order, raises
\* AmbiguousUrlsError: it returns neither the manifest URL nor the URLs.
C15_ManifestWithRangesIsAmbiguous ==
    \A o \in 1..Len(nobs) :
        (ManifestSeen(SeenBy(o)) /\ ZeroBasedRanges(SeenBy(o)) # {})
            => nobs[o].result.kind = "AmbiguousUrlsError"

\* C20: an observation returns the grouped URLs only when it has seen at
\* least 2 * |qualities| byte-range URLs starting at 0; with fewer, and no
\* manifest URL, it calls replay() exactly once and returns False.  No other
\* observation calls replay().
C20_UrlsOnlyWhenTwicePerQuality ==
    \A o \in 1..Len(nobs) :
        LET seen == SeenBy(o)
            total == Cardinality(ZeroBasedRanges(seen))
            result == nobs[o].result
        IN /\ result.kind = "urls" => total >= 2 * Cardinality(qualities)
           /\ (~ManifestSeen(seen) /\ total < 2 * Cardinality(qualities)) =>
                 /\ result.kind = "False"
                 /\ result.replays = 1
           /\ result.kind # "False" => result.replays = 0
           /\ o < Len(nobs) => result.kind = "False"

C20_Witness ==
    /\ Cardinality(qualities) = 2
    /\ Len(nobs) = 2
    /\ nobs[1].seen = 3
    /\ nobs[1].result = Outcome("False", NoMpd, <<>>, 1)
    /\ nobs[2].seen = 4
    /\ nobs[2].result.kind = "urls"
    /\ Len(nobs[2].result.urls) = 2

(***************************************************************************)
(* Speed limited iteration: LimitedResponse.iter_content with a speed      *)
(* limit.  Time is counted in ticks, SegmentTicks of them to a segment     *)
(* (t0 = 1 / k seconds), so a second is segments * SegmentTicks ticks; the *)
(* clock is time.perf_counter() and advances only while a chunk is read,   *)
(* while the consumer holds the chunk yielded, and in time.sleep.          *)
(***************************************************************************)
MaxSpeed == 4

MaxSegments == 2

SegmentTicks == 2

MaxThreshold == 1

MaxChunkSize == 2

MaxBody == 4

MaxDelay == 1

\* r0 = int(r // k): bytes per segment
BytesPerSegment(r, k) == r \div k

\* c = r0 if not chunk_size else min(r0, chunk_size)
ChunkCap(r0, chunk_size) == IF chunk_size = 0 THEN r0 ELSE Min(r0, chunk_size)

\* a full segment slept whenever the transfer is ahead
SleepTimeSegment(lag) == SegmentTicks

\* time.sleep(-tl)
SleepTime(lag) == -lag

\* if tl < -s
SleepNeeded(lag, s) == lag < -s

LagUpdate(at, lag, slept) == [at |-> at, lag |-> lag, slept |-> slept]

\* the last two items of the list of lag updates
LastTwo(log) == IF Len(log) <= 2 THEN log ELSE SubSeq(log, Len(log) - 1, Len(log))

InitT ==
    /\ speed \in 1..MaxSpeed
    /\ segments \in 1..MaxSegments
    /\ threshold \in 0..MaxThreshold
    /\ chunkSize \in 0..MaxChunkSize
    /\ remaining \in 0..MaxBody
    /\ clock = 0
    /\ tl = 0
    /\ tl_start = 0
    /\ yielded = 0
    /\ tpc = "read"
    /\ tlog = <<>>

IdleT ==
    /\ speed = 1
    /\ segments = 1
    /\ threshold = 0
    /\ chunkSize = 0
    /\ remaining = 0
    /\ clock = 0
    /\ tl = 0
    /\ tl_start = 0
    /\ yielded = 0
    /\ tpc = "idle"
    /\ tlog = <<>>

\* the next chunk of self.response.iter_content(slice_length) for a response
\* that session.get has read in full: a slice of slice_length bytes of what is
\* left, all of it when slice_length is 0
IterSlice(left, slice_length) ==
    IF slice_length <= 0 THEN left ELSE Min(slice_length, left)

\* the for loop takes the next chunk of self.response.iter_content(c, ...)
\* and the chunk is yielded
ReadChunk ==
    /\ tpc = "read"
    /\ remaining > 0
    /\ LET c == ChunkCap(BytesPerSegment(speed, segments), chunkSize)
           n == IterSlice(remaining, c)
       IN \E d \in 0..MaxDelay :
             /\ clock' = clock + d
             /\ remaining' = remaining - n
             /\ yielded' = yielded + n
    /\ tpc' = "consume"
    /\ UNCHANGED <<speed, segments, threshold, chunkSize, tl, tl_start, tlog>>
    /\ UNCHANGED <<qvars, mvars, dvars, avars, rvars, xvars, svars, nvars, gvars, kvars, pvars, fvars>>

\* the response is read to its end: the for loop ends
EndOfContent ==
    /\ tpc = "read"
    /\ remaining = 0
    /\ tpc' = "done"
    /\ UNCHANGED <<speed, segments, threshold, chunkSize, remaining, clock, tl,
                   tl_start, yielded, tlog>>
    /\ UNCHANGED <<qvars, mvars, dvars, avars, rvars, xvars, svars, nvars, gvars, kvars, pvars, fvars>>

\* the consumer asks for the next chunk after some time: the lag is updated
\* and compared with the threshold
UpdateLag ==
    /\ tpc = "consume"
    /\ \E d \in 0..MaxDelay :
          LET tl_end == clock + d
              lag == tl + (tl_end - tl_start) - SegmentTicks
          IN /\ clock' = tl_end
             /\ tl' = lag
             /\ tl_start' = tl_end
             /\ tlog' = LastTwo(Append(tlog, LagUpdate(tl_end, lag, 0)))
             /\ tpc' = IF SleepNeeded(lag, threshold) THEN "sleep" ELSE "read"
    /\ UNCHANGED <<speed, segments, threshold, chunkSize, remaining, yielded>>
    /\ UNCHANGED <<qvars, mvars, dvars, avars, rvars, xvars, svars, nvars, gvars, kvars, pvars, fvars>>

\* time.sleep(-tl) returns
Sleep ==
    /\ tpc = "sleep"
    /\ clock' = clock + SleepTime(tl)
    /\ tlog' = [tlog EXCEPT ![Len(tlog)].slept = clock' - clock]
    /\ tpc' = "read"
    /\ UNCHANGED <<speed, segments, threshold, chunkSize, remaining, tl, tl_start, yielded>>
    /\ UNCHANGED <<qvars, mvars, dvars, avars, rvars, xvars, svars, nvars, gvars, kvars, pvars, fvars>>

\* C16: at every point of the transfer the bytes yielded so far are at most
\* R * (elapsed + S + 1/K), the times in seconds: in ticks,
\* yielded * K * SegmentTicks <= R * (elapsed + S + SegmentTicks).  The
\* average throughput over a transfer of duration T is then at most
\* R * (1 + (S + 1/K) / T).
C16_ThroughputBounded ==
    yielded * segments * SegmentTicks <= speed * (clock + threshold + SegmentTicks)

\* the lag update before the last one: that of the start when there is none
Previous == IF Len(tlog) = 2 THEN tlog[1] ELSE LagUpdate(0, 0, 0)

\* C17: each lag update adds (time since the previous update - t0) to the
\* lag; the transfer sleeps after an update exactly when the lag is below -S,
\* for |lag|, and not at all when the lag is at least -S; the time slept
\* counts in the next update, so the lag after a sleep is the time since the
\* wake-up minus t0.
C17_SleepsOffLagOnce ==
    /\ tlog # <<>> =>
          LET last == tlog[Len(tlog)] IN
          /\ last.lag = Previous.lag + (last.at - Previous.at) - SegmentTicks
          /\ tl = last.lag
          /\ tpc = "sleep" <=> (last.lag < -threshold /\ last.slept = 0)
          /\ tpc # "sleep" => last.slept = (IF last.lag < -threshold THEN -last.lag ELSE 0)
          /\ Previous.slept > 0 =>
                last.lag = (last.at - (Previous.at + Previous.slept)) - SegmentTicks
          /\ clock >= last.at + last.slept
    /\ Len(tlog) = 2 =>
          tlog[1].slept = (IF tlog[1].lag < -threshold THEN -tlog[1].lag ELSE 0)

C17_Witness ==
    /\ Len(tlog) = 2
    /\ tlog[1].slept > 0
    /\ tlog[2].lag < 0
    /\ tlog[2].lag >= -threshold
    /\ tpc = "read"
    /\ remaining > 0

\* C27: for every configuration the validation accepts (speed limit > 0,
\* segments count >= 1, chunk size >= 1 or absent) the read cap
\* c = min(floor(R / K), chunk size) is at least 1 byte: no chunk is read
\* with a cap of zero.
C27_ReadCapPositive ==
    yielded > 0 => ChunkCap(BytesPerSegment(speed, segments), chunkSize) >= 1

(***************************************************************************)
(* Media from the grouped byte-range URLs:                                 *)
(* VkLoader._get_media_from_types_map.  types_map is the dict returned by  *)
(* _get_urls_from_network_logs, its groups in insertion order; a URL is    *)
(* given by its position in the log, the Content-Type of its response and  *)
(* the frame size ffmpeg finds in the file written from it.                *)
(***************************************************************************)
MaxUrls == 3

\* response.headers.get("Content-Type") is None or empty
NoMimeType == <<>>

MimeTypes ==
    {NoMimeType, VideoMp4, AudioMp4,
     <<"t", "e", "x", "t", "/", "h", "t", "m", "l">>}

\* min(infos["video_size"]) of the files probed
ProbedQualities == {QualityOf(1), QualityOf(2)}

DirectUrl(id, mime_type, q) == [id |-> id, mime |-> mime_type, quality |-> q]

\* an audio file has no frame size and is not probed
DirectUrls(id) ==
    {DirectUrl(id, mt, q) : mt \in MimeTypes, q \in ProbedQualities}

\* position of the first member of tuple that str starts with, 0 if none
RECURSIVE FirstPrefix(_, _, _)
FirstPrefix(str, tuple, i) ==
    IF i > Len(tuple) THEN 0
    ELSE IF StartsWith(str, tuple[i]) THEN i
    ELSE FirstPrefix(str, tuple, i + 1)

InvalidMimeType == <<>>

\* MediaType.from_mime_type: the first gmedia type the MIME type starts with
FromMimeType(mime_type) ==
    LET i == FirstPrefix(mime_type, MediaTypeValues, 1)
    IN  IF i = 0 THEN InvalidMimeType ELSE MediaTypeValues[i]

ResourceSpec(source, file) == [source |-> source, target |-> file]

NoResource == ResourceSpec(0, <<>>)

\* medias = {k: {} for k in types_map}
NoMedias(n) == [g \in 1..n |-> [audio |-> NoResource, video |-> NoResource]]

NotReturned == [status |-> "none"]

DirectRaised(exc, media_type) == [status |-> exc, media |-> media_type]

MediaSpec(a, v) == [status |-> "ok", audio |-> a, video |-> v]

\* the group of the URL at position k when a new group starts after each cut
GroupOf(k, cuts) == 1 + Cardinality({c \in cuts : c < k})

\* the dict built from the log: one group per type, in order of first appearance
TypesMap(urls, cuts) ==
    [g \in 1..(Cardinality(cuts) + 1) |->
        SelectSeq(urls, LAMBDA u : GroupOf(u.id, cuts) = g)]

InitG ==
    /\ \E n \in 2..MaxUrls :
       \E urls \in [1..n -> UNION {DirectUrls(id) : id \in 1..n}] :
       \E cuts \in SUBSET (1..(n - 1)) :
          /\ \A k \in 1..n : urls[k].id = k
          /\ \A k \in 1..n : FromMimeType(urls[k].mime) # VideoType => urls[k].quality = QualityOf(1)
          /\ typesMap = TypesMap(urls, cuts)
    /\ gtarget \in ProbedQualities
    /\ gi = 1
    /\ gj = 1
    /\ gpc = "loop"
    /\ medias = NoMedias(Len(typesMap))
    /\ gmedia = 0
    /\ gprobed = <<>>
    /\ gresult = NotReturned

IdleG ==
    /\ typesMap = <<>>
    /\ gtarget = QualityOf(1)
    /\ gi = 1
    /\ gj = 1
    /\ gpc = "idle"
    /\ medias = <<>>
    /\ gmedia = 0
    /\ gprobed = <<>>
    /\ gresult = NotReturned

\* the whole of the matching group is probed, then the loop goes on
BreakNever(m) == FALSE

\* if media: break
Break(m) == m # 0

\* the body of the inner loop for one URL: download it, classify it by its
\* Content-Type, write it, record its ResourceSpec and probe it if it is a video
ProbeUrl ==
    /\ gpc = "loop"
    /\ gi <= Len(typesMap)
    /\ gj <= Len(typesMap[gi])
    /\ LET url == typesMap[gi][gj]
           media_type == FromMimeType(url.mime)
       IN  /\ gprobed' = Append(gprobed, url.id)
           /\ IF url.mime = NoMimeType
                 THEN /\ gresult' = DirectRaised("MimeTypeNotFoundError", <<>>)
                      /\ gpc' = "done"
                      /\ UNCHANGED <<medias, gmedia, gj>>
              ELSE IF media_type = InvalidMimeType
                 THEN /\ gresult' = DirectRaised("InvalidMimeTypeError", <<>>)
                      /\ gpc' = "done"
                      /\ UNCHANGED <<medias, gmedia, gj>>
              ELSE /\ medias' =
                         IF media_type = AudioType
                            THEN [medias EXCEPT ![gi].audio = ResourceSpec(url.id, TargetOf(url.mime))]
                            ELSE [medias EXCEPT ![gi].video = ResourceSpec(url.id, TargetOf(url.mime))]
                   /\ gmedia' = IF media_type = VideoType /\ url.quality = gtarget
                                  THEN gi ELSE gmedia
                   /\ gj' = gj + 1
                   /\ UNCHANGED <<gresult, gpc>>
    /\ UNCHANGED <<typesMap, gtarget, gi>>
    /\ UNCHANGED <<qvars, mvars, dvars, avars, rvars, xvars, svars, nvars, tvars, kvars, pvars, fvars>>

\* the end of the inner loop: break out of the outer one or take the next group
EndOfGroup ==
    /\ gpc = "loop"
    /\ gi <= Len(typesMap)
    /\ gj > Len(typesMap[gi])
    /\ IF Break(gmedia) \/ gi = Len(typesMap)
          THEN gpc' = "after" /\ UNCHANGED <<gi, gj>>
          ELSE gi' = gi + 1 /\ gj' = 1 /\ UNCHANGED gpc
    /\ UNCHANGED <<typesMap, gtarget, medias, gmedia, gprobed, gresult>>
    /\ UNCHANGED <<qvars, mvars, dvars, avars, rvars, xvars, svars, nvars, tvars, kvars, pvars, fvars>>

\* after the loops: MediaNotFoundError for the video, for the audio, or the MediaSpec
ReturnMedia ==
    /\ gpc = "after"
    /\ gresult' =
          IF gmedia = 0 THEN DirectRaised("MediaNotFoundError", VideoType)
          ELSE IF medias[gmedia].audio = NoResource
             THEN DirectRaised("MediaNotFoundError", AudioType)
          ELSE MediaSpec(medias[gmedia].audio, medias[gmedia].video)
    /\ gpc' = "done"
    /\ UNCHANGED <<typesMap, gtarget, gi, gj, medias, gmedia, gprobed>>
    /\ UNCHANGED <<qvars, mvars, dvars, avars, rvars, xvars, svars, nvars, tvars, kvars, pvars, fvars>>

\* the URLs of a group that are videos of the target quality
IsVideo(url) == FromMimeType(url.mime) = VideoType

IsAudio(url) == FromMimeType(url.mime) = AudioType

MatchesIn(g) ==
    {j \in 1..Len(typesMap[g]) : IsVideo(typesMap[g][j]) /\ typesMap[g][j].quality = gtarget}

MatchingGroups == {g \in 1..Len(typesMap) : MatchesIn(g) # {}}

\* the groups the claim has probed: up to the first matching one, all if none
LastProbedGroup == IF MatchingGroups = {} THEN Len(typesMap) ELSE SetMin(MatchingGroups)

\* the ids of the URLs of groups 1..g, in group order
RECURSIVE IdsUpTo(_)
IdsUpTo(g) ==
    IF g = 0 THEN <<>>
    ELSE IdsUpTo(g - 1) \o [j \in 1..Len(typesMap[g]) |-> typesMap[g][j].id]

\* every URL up to the first matching group has a Content-Type of a known media type
Classified ==
    \A g \in 1..LastProbedGroup : \A j \in 1..Len(typesMap[g]) :
        IsVideo(typesMap[g][j]) \/ IsAudio(typesMap[g][j])

UrlOfId(g, id) == CHOOSE u \in {typesMap[g][j] : j \in 1..Len(typesMap[g])} : u.id = id

IdsIn(g) == {typesMap[g][j].id : j \in 1..Len(typesMap[g])}

C26_VideoOfTargetQuality ==
    (gpc = "done" /\ gresult.status = "ok") =>
        \E g \in 1..Len(typesMap) : \E j \in MatchesIn(g) :
            gresult.video.source = typesMap[g][j].id

(***************************************************************************)
(* Playlist mode: LoaderBase._get_playlist, which calls _get_video for     *)
(* each URL of the playlist.  A path is the sequence of its parts, the     *)
(* part 0 for the output directory given and the part i for the file named *)
(* after the title of the i-th video.                                      *)
(***************************************************************************)
MaxPlaylist == 3

OutputDirectory == <<0>>

\* the outcomes of one call of _get_video: the step that ended it, what it
\* raised, whether a _try_* wrapper caught and logged it, and whether
\* _ensure_filename_present_and_valid had extended self.output_path by then
VideoOutcome(phase, outcome, catches, named) ==
    [phase |-> phase, outcome |-> outcome,
     report |-> IF outcome = "ok" THEN "none" ELSE Report(outcome, catches),
     named |-> named]

GetVideoOutcomes ==
    {VideoOutcome("ensure", "AccessRestrictedError", TryEnsureVideoCatches, FALSE)}
      \cup {VideoOutcome("ensure", exc, TryEnsureVideoCatches, TRUE) :
               exc \in {"FileExistsNoOverwriteError", "PathNotFoundError"}}
      \cup {VideoOutcome("redirect", exc, {}, TRUE) :
               exc \in {"VideoSourceNotFoundError", "LoaderNotFoundError", "RaisedByLoader"}}
      \cup {VideoOutcome("quality", exc, TryGetTargetQualityCatches, TRUE) :
               exc \in {"QualityNotFoundError", "TimeoutException"}}
      \cup {VideoOutcome("execute", exc, TryExecuteCatches, TRUE) :
               exc \in TryExecuteCatches \cup {"AmbiguousUrlsError", "KeyError"}}
      \cup {VideoOutcome("execute", "ok", TryExecuteCatches, TRUE)}

\* self.output_path /= title
WithTitle(path, title) == Append(path, title)

\* the path of the video just attempted is kept for the next one
KeepOutputPath(current, saved) == current

\* self.output_path = output_path
RestoreOutputPath(current, saved) == saved

InitP ==
    /\ playlist \in 0..MaxPlaylist
    /\ pnext = 1
    /\ poutput = OutputDirectory
    /\ psaved = OutputDirectory
    /\ pattempts = <<>>
    /\ ppc = "start"

IdleP ==
    /\ playlist = 0
    /\ pnext = 1
    /\ poutput = OutputDirectory
    /\ psaved = OutputDirectory
    /\ pattempts = <<>>
    /\ ppc = "idle"

\* the playlist page is read: PlaylistNotFoundError, a PathNotFoundError of
\* _try_ensure_playlist, or output_path = self.output_path before the loop
FindPlaylist ==
    /\ ppc = "start"
    /\ \/ /\ playlist = 0
          /\ ppc' = "raised"
          /\ UNCHANGED psaved
       \/ /\ playlist > 0
          /\ ppc' = "raised"
          /\ UNCHANGED psaved
       \/ /\ playlist > 0
          /\ ppc' = "loop"
          /\ psaved' = poutput
    /\ UNCHANGED <<playlist, pnext, poutput, pattempts>>
    /\ UNCHANGED <<qvars, mvars, dvars, avars, rvars, xvars, svars, nvars, tvars, gvars, kvars, fvars>>

\* one pass of the for loop: self._get_video(video_url), which returns or
\* raises, then self.output_path = output_path and video_num += 1
GetPlaylistVideo ==
    /\ ppc = "loop"
    /\ pnext <= playlist
    /\ \E res \in GetVideoOutcomes :
          LET path == IF res.named THEN WithTitle(poutput, pnext) ELSE poutput IN
          /\ pattempts' = Append(pattempts,
                                 [video |-> pnext, start |-> poutput, path |-> path,
                                  outcome |-> res])
          /\ IF res.report = "unhandled"
                THEN /\ ppc' = "raised"
                     /\ poutput' = path
                     /\ UNCHANGED pnext
                ELSE /\ poutput' = RestoreOutputPath(path, psaved)
                     /\ pnext' = pnext + 1
                     /\ UNCHANGED ppc
    /\ UNCHANGED <<playlist, psaved>>
    /\ UNCHANGED <<qvars, mvars, dvars, avars, rvars, xvars, svars, nvars, tvars, gvars, kvars, fvars>>

\* the playlist is exhausted: _get_playlist returns
EndOfPlaylist ==
    /\ ppc = "loop"
    /\ pnext > playlist
    /\ ppc' = "done"
    /\ UNCHANGED <<playlist, pnext, poutput, psaved, pattempts>>
    /\ UNCHANGED <<qvars, mvars, dvars, avars, rvars, xvars, svars, nvars, tvars, gvars, kvars, fvars>>

HandledFailure(i) == pattempts[i].outcome.report = "logged"

\* C29: in playlist mode the videos are attempted one at a time in playlist
\* order, each at most once and each from the playlist's original output
\* path; after a video whose acquisition ended with a handled failure the
\* next video of the playlist is attempted, and the loop ends only past the
\* last video or at an exception no wrapper handles.
C29_PlaylistContinues ==
    /\ \A i \in 1..Len(pattempts) :
          /\ pattempts[i].video = i
          /\ i <= playlist
          /\ pattempts[i].start = OutputDirectory
    /\ ppc \in {"done", "raised"} =>
          \A i \in 1..Len(pattempts) :
              (HandledFailure(i) /\ i < playlist) => Len(pattempts) > i
    /\ ppc = "done" => Len(pattempts) = playlist
    /\ (ppc = "raised" /\ pattempts # <<>>) =>
          pattempts[Len(pattempts)].outcome.report = "unhandled"

C29_Witness ==
    /\ ppc = "done"
    /\ Len(pattempts) = 3
    /\ pattempts[1].outcome.outcome = "DownloadRequestError"
    /\ pattempts[2].outcome.outcome = "AccessRestrictedError"
    /\ pattempts[3].outcome.outcome = "ok"
    /\ pattempts[3].start = OutputDirectory

(***************************************************************************)
(* The last existing part of a path: LoaderBase._find_last_existing_path_  *)
(* part and _ensure_no_file_exists.  The parts of the path are numbered    *)
(* from the path itself, 0, through parents[0], 1, to parents[n - 1], n,   *)
(* the root; the parts that exist are those from fexists on (none when     *)
(* fexists is n + 1), the existing ancestors forming a chain from the root.*)
(***************************************************************************)
MaxDepth == 6

\* the function returns None
NoPart == -1

\* part.exists(), the part given by its number
Exists(part, first_existing) == part >= first_existing

\* parents[i], as the number of the part
Parent(i) == i + 1

InitF ==
    /\ fparents \in 0..MaxDepth
    /\ fexists \in 0..(fparents + 1)
    /\ fisfile \in BOOLEAN
    /\ flow = 0
    /\ fhigh = 0
    /\ flepp = NoPart
    /\ fraised = "none"
    /\ fpc = "enter"

IdleF ==
    /\ fparents = 0
    /\ fexists = 0
    /\ fisfile = FALSE
    /\ flow = 0
    /\ fhigh = 0
    /\ flepp = NoPart
    /\ fraised = "none"
    /\ fpc = "idle"

\* if path.exists(): return path; else low, high = 0, len(parents)
EnterFind ==
    /\ fpc = "enter"
    /\ IF Exists(0, fexists)
          THEN /\ flepp' = 0
               /\ fpc' = "found"
               /\ UNCHANGED <<flow, fhigh>>
          ELSE /\ flow' = 0
               /\ fhigh' = fparents
               /\ fpc' = "search"
               /\ UNCHANGED flepp
    /\ UNCHANGED <<fparents, fexists, fisfile, fraised>>
    /\ UNCHANGED <<qvars, mvars, dvars, avars, rvars, xvars, svars, nvars, tvars, gvars, kvars, pvars>>

\* one pass of the while loop of the binary search
SearchStep ==
    /\ fpc = "search"
    /\ flow < fhigh - 1
    /\ LET mid == (flow + fhigh) \div 2 IN
       IF Exists(Parent(mid), fexists)
          THEN flow' = mid /\ UNCHANGED fhigh
          ELSE fhigh' = mid /\ UNCHANGED flow
    /\ UNCHANGED <<fparents, fexists, fisfile, flepp, fraised, fpc>>
    /\ UNCHANGED <<qvars, mvars, dvars, avars, rvars, xvars, svars, nvars, tvars, gvars, kvars, pvars>>

\* after the loop: None with no parents or when parents[low] does not exist,
\* parents[low] otherwise
EndSearch ==
    /\ fpc = "search"
    /\ ~(flow < fhigh - 1)
    /\ flepp' = IF flow >= fhigh THEN NoPart
                ELSE IF ~Exists(Parent(flow), fexists) THEN NoPart
                ELSE Parent(flow)
    /\ fpc' = "found"
    /\ UNCHANGED <<fparents, fexists, fisfile, flow, fhigh, fraised>>
    /\ UNCHANGED <<qvars, mvars, dvars, avars, rvars, xvars, svars, nvars, tvars, gvars, kvars, pvars>>

\* lepp.is_file(): of the existing parts only the deepest may be a file
IsFile(part, first_existing, deepest_is_file) ==
    part = first_existing /\ deepest_is_file

\* _ensure_no_file_exists with the part found: PathNotFoundError when there is
\* none, FileExistsNoOverwriteError when it is a file
EnsureNoFileExists ==
    /\ fpc = "found"
    /\ fraised' = IF flepp = NoPart THEN "PathNotFoundError"
                  ELSE IF IsFile(flepp, fexists, fisfile) THEN "FileExistsNoOverwriteError"
                  ELSE "none"
    /\ fpc' = "done"
    /\ UNCHANGED <<fparents, fexists, fisfile, flow, fhigh, flepp>>
    /\ UNCHANGED <<qvars, mvars, dvars, avars, rvars, xvars, svars, nvars, tvars, gvars, kvars, pvars>>

\* the deepest existing part of the path, NoPart when nothing of it exists
DeepestExisting == IF fexists <= fparents THEN fexists ELSE NoPart

\* C30: _find_last_existing_path_part returns the deepest existing part of
\* the path, and None only when no part exists; _ensure_no_file_exists then
\* raises PathNotFoundError only when nothing of the path exists and
\* FileExistsNoOverwriteError exactly when the deepest existing part is a file.
C30_DeepestExistingPart ==
    /\ fpc \in {"found", "done"} => flepp = DeepestExisting
    /\ fpc = "done" =>
          /\ fraised = "PathNotFoundError" => DeepestExisting = NoPart
          /\ fraised = "FileExistsNoOverwriteError" <=>
                (DeepestExisting # NoPart /\ fisfile)

(***************************************************************************)
(* Specifications                                                          *)
(***************************************************************************)
InitQuality == InitQ /\ IdleM /\ IdleD /\ IdleA /\ IdleR /\ IdleX /\ IdleS /\ IdleN /\ IdleT /\ IdleG /\ IdleK /\ IdleP /\ IdleF

NextQuality == ResolveQuality

SpecQuality == InitQuality /\ [][NextQuality]_vars

InitManifest == InitM /\ IdleQ /\ IdleD /\ IdleA /\ IdleR /\ IdleX /\ IdleS /\ IdleN /\ IdleT /\ IdleG /\ IdleK /\ IdleP /\ IdleF

NextManifest == BuildResource

SpecManifest == InitManifest /\ [][NextManifest]_vars

InitDownload == InitD /\ IdleQ /\ IdleM /\ IdleA /\ IdleR /\ IdleX /\ IdleS /\ IdleN /\ IdleT /\ IdleG /\ IdleK /\ IdleP /\ IdleF

NextDownload == Open \/ Request \/ WriteChunk \/ FinishPacket \/ EndOfSource

SpecDownload == InitDownload /\ [][NextDownload]_vars

InitAcquire == InitA /\ InitQ /\ IdleM /\ IdleD /\ IdleR /\ IdleX /\ IdleS /\ IdleN /\ IdleT /\ IdleG /\ IdleK /\ IdleP /\ IdleF

NextAcquire ==
    \/ TryEnsureVideo
    \/ CheckRedirect
    \/ TryDisableAutoplay
    \/ TryGetTargetQuality
    \/ Observe
    \/ DiscoveryTimeout
    \/ MediaFromMpd
    \/ MediaFromTypesMap
    \/ TransferAudio
    \/ TransferVideo
    \/ Mux

SpecAcquire == InitAcquire /\ [][NextAcquire]_vars

\* _try_execute, entered by _get_video once the target quality is known
InitDiscover ==
    /\ apc = "discover"
    /\ alog = <<>>
    /\ areport = "none"
    /\ atransfers = 0
    /\ amux = 0
    /\ apolls = 0
    /\ qualities \in (SUBSET QualityValues) \ {{}}
    /\ quality \in {r \in Requests : r.kind # "num"}
    /\ exact = FALSE
    /\ target = GetTargetQuality(qualities, quality, exact)
    /\ IdleM /\ IdleD /\ IdleR /\ IdleX /\ IdleS /\ IdleN /\ IdleT /\ IdleG /\ IdleK /\ IdleP /\ IdleF

NextDiscover ==
    \/ Observe
    \/ DiscoveryTimeout
    \/ MediaFromMpd
    \/ MediaFromTypesMap
    \/ TransferAudio
    \/ TransferVideo
    \/ Mux

\* _execute runs to its end: every call it makes returns or raises
SpecDiscover == InitDiscover /\ [][NextDiscover]_vars /\ WF_vars(NextDiscover)

InitRedirect == InitR /\ IdleQ /\ IdleM /\ IdleD /\ IdleA /\ IdleX /\ IdleS /\ IdleN /\ IdleT /\ IdleG /\ IdleK /\ IdleP /\ IdleF

NextRedirect == CompareOrigins \/ Redirect \/ LoaderGetEnds

SpecRedirect == InitRedirect /\ [][NextRedirect]_vars

InitExecute == InitX /\ IdleQ /\ IdleM /\ IdleD /\ IdleA /\ IdleR /\ IdleS /\ IdleN /\ IdleT /\ IdleG /\ IdleK /\ IdleP /\ IdleF

NextExecute ==
    \/ StartTransfer
    \/ Open
    \/ Request
    \/ WriteChunk
    \/ FinishPacket
    \/ EndOfSource
    \/ EndTransfer
    \/ WriteVideofile

SpecExecute == InitExecute /\ [][NextExecute]_vars

InitSelect == InitS /\ InitK /\ IdleQ /\ IdleM /\ IdleD /\ IdleA /\ IdleR /\ IdleX /\ IdleN /\ IdleT /\ IdleG /\ IdleP /\ IdleF

NextSelect == VideoResource \/ AudioAfterVideo

SpecSelect == InitSelect /\ [][NextSelect]_vars

NextAudio == AudioResource

SpecAudio == InitSelect /\ [][NextAudio]_vars

InitObserve ==
    InitN /\ InitObservedQualities /\ IdleM /\ IdleD /\ IdleA /\ IdleR /\ IdleX /\ IdleS /\ IdleT /\ IdleG /\ IdleK /\ IdleP /\ IdleF

NextObserve == PageFetches \/ ObserveLog

SpecObserve == InitObserve /\ [][NextObserve]_vars

InitThrottle == InitT /\ IdleQ /\ IdleM /\ IdleD /\ IdleA /\ IdleR /\ IdleX /\ IdleS /\ IdleN /\ IdleG /\ IdleK /\ IdleP /\ IdleF

NextThrottle == ReadChunk \/ EndOfContent \/ UpdateLag \/ Sleep

SpecThrottle == InitThrottle /\ [][NextThrottle]_vars

InitDirect == InitG /\ IdleQ /\ IdleM /\ IdleD /\ IdleA /\ IdleR /\ IdleX /\ IdleS /\ IdleN /\ IdleT /\ IdleK /\ IdleP /\ IdleF

NextDirect == ProbeUrl \/ EndOfGroup \/ ReturnMedia

SpecDirect == InitDirect /\ [][NextDirect]_vars

InitTargets ==
    InitTargetFiles /\ IdleQ /\ IdleM /\ IdleD /\ IdleA /\ IdleR /\ IdleX /\ IdleN /\ IdleT /\ IdleG /\ IdleP /\ IdleF

NextTargets == VideoResource \/ AudioAfterVideo

SpecTargets == InitTargets /\ [][NextTargets]_vars

InitPlaylist ==
    InitP /\ IdleQ /\ IdleM /\ IdleD /\ IdleA /\ IdleR /\ IdleX /\ IdleS /\ IdleN /\ IdleT /\ IdleG /\ IdleK /\ IdleF

NextPlaylist == FindPlaylist \/ GetPlaylistVideo \/ EndOfPlaylist

SpecPlaylist == InitPlaylist /\ [][NextPlaylist]_vars

InitFind ==
    InitF /\ IdleQ /\ IdleM /\ IdleD /\ IdleA /\ IdleR /\ IdleX /\ IdleS /\ IdleN /\ IdleT /\ IdleG /\ IdleK /\ IdleP

NextFind == EnterFind \/ SearchStep \/ EndSearch \/ EnsureNoFileExists

SpecFind == InitFind /\ [][NextFind]_vars

====
